---- MODULE Spec2Model ----
(***************************************************************************)
(* xcargo: the build-strategy decision engine (Builder::build) and the     *)
(* multi-target orchestrators (Builder::build_all, build_all_parallel),    *)
(* the Zig wrapper cache, the library functions of the target and image    *)
(* modules, and the plugin registry.                                       *)
(*                                                                         *)
(* Representation.  A target triple is the sequence of its dash-separated  *)
(* segments ("x86_64-pc-windows-gnu" is <<"x86_64","pc","windows","gnu">>),*)
(* so str::split('-') is the identity on the representation and the        *)
(* parser works on the segments as the code does.  An Option<T> is a       *)
(* sequence of length at most one (<<>> is None, <<v>> is Some(v)), except *)
(* Option<bool>, which is one of the strings "None", "Some(true)",         *)
(* "Some(false)".  A function that runs external commands is a set-valued  *)
(* operator: the set holds one outcome per way the external commands can   *)
(* answer, and each outcome carries the trace of the calls that were made. *)
(***************************************************************************)
EXTENDS Integers, Sequences, FiniteSets, TLC

VARIABLES
    entry,      \* the entry point called: "build", "build_all", "build_all_parallel", ...
    self,       \* the Builder the entry point is called on
    options,    \* the BuildOptions handed to the entry point
    targets,    \* the target list of a multi-target run (<<>> for "build")
    world,      \* what the host answers: host triple, zig on PATH, xcargo.toml on disk
    call,       \* outcome of the single build() call (NoCall before it returns)
    ret,        \* the value the entry point returned ("Pending" before)
    successes,  \* build_all / build_all_parallel: the success list
    failures,   \* build_all / build_all_parallel: the failure list
    mpc,        \* where the orchestrator is: "loop", "spawn", "await", "summary", "done"
    idx,        \* the orchestrator's loop index (for, spawn and await loops)
    tpc,        \* per target index: "idle", "ready", "built", "locked", "done"
    tres,       \* per target index: what builder.build (or Builder::new) returned
    tsnap,      \* per target index: the Vec as the task holding its lock reads it
    mutex,      \* holder of each Mutex (0 = unlocked): [successes, failures]
    cache_dir,  \* the Zig wrapper cache: whether ~/.xcargo/zig-wrappers exists
    cache,      \* the Zig wrapper cache: shim path |-> [content, exec]
    zpc,        \* per wrapper task: where it is in environment_for_target
    ztarget,    \* per wrapper task: the triple of its current call
    zres,       \* per wrapper task: what its current call returned
    zseen,      \* per wrapper task: its shims as they were when the driver started
    zwrote,     \* per wrapper task: the writes of its current call: [path, existed]
    zhad,       \* per wrapper task: both shims of its target existed when its call started
    zcalls,     \* per wrapper task: calls made so far
    cleaned,    \* clean_cache has been called
    lop,        \* the library function applied to larg ("none" before)
    larg,       \* the input of a library call: [str, host, path]
    lout,       \* what the library call returned
    hung,       \* the parallel tasks whose external build never terminates
    plugins,    \* PluginRegistry: the names of the plugins in the map
    execution_order, \* PluginRegistry: the execution order
    plast,      \* the last call on the registry and what it did
    pcalls      \* calls made on the registry so far

(* The state of a build run *)
run == <<entry, self, options, targets, world, call, ret,
         successes, failures, mpc, idx, tpc, tres, tsnap, mutex>>

(* The state of the Zig wrapper cache and of the tasks that use it *)
shim == <<cache_dir, cache, zpc, ztarget, zres, zseen, zwrote, zhad, zcalls, cleaned>>

(* The state of a call of a library function of the target and image modules *)
lib == <<lop, larg, lout>>

(* What neither a build run nor the wrapper cache touches *)
(* The state of a plugin registry and of its caller *)
registry == <<plugins, execution_order, plast, pcalls>>

aside == <<lib, hung, registry>>

vars == <<entry, self, options, targets, world, call, ret,
          successes, failures, mpc, idx, tpc, tres, tsnap, mutex,
          cache_dir, cache, zpc, ztarget, zres, zseen, zwrote, zhad, zcalls, cleaned,
          lop, larg, lout, hung, plugins, execution_order, plast, pcalls>>

(* No call has been made on the registry. *)
NoRegistryCall == [op |-> "none", arg |-> <<>>, result |-> "Pending",
                   invoked |-> <<>>, failed |-> <<>>]

(* PluginRegistry::new *)
InitRegistry ==
    /\ plugins = {}
    /\ execution_order = <<>>
    /\ plast = NoRegistryCall
    /\ pcalls = 0

(* No library call is under way. *)
InitAside ==
    /\ lop = "none"
    /\ larg = <<>>
    /\ lout = <<>>
    /\ hung = {}
    /\ InitRegistry

-----------------------------------------------------------------------------
(* Target triples used as inputs *)

LinuxGnu    == <<"x86_64", "unknown", "linux", "gnu">>
Aarch64Gnu  == <<"aarch64", "unknown", "linux", "gnu">>
WindowsGnu  == <<"x86_64", "pc", "windows", "gnu">>
WindowsMsvc == <<"x86_64", "pc", "windows", "msvc">>
AppleDarwin == <<"x86_64", "apple", "darwin">>
AppleArm    == <<"aarch64", "apple", "darwin">>
Malformed   == <<"invalid">>

Triples == {LinuxGnu, Aarch64Gnu, WindowsGnu, WindowsMsvc, AppleDarwin, Malformed}

Hosts == {LinuxGnu, AppleArm}

-----------------------------------------------------------------------------
(* Target::from_triple *)

NoTarget == [triple |-> <<>>, arch |-> "", vendor |-> "", os |-> "", env |-> <<>>]

from_triple(triple) ==
    LET parts == triple IN
    IF Len(parts) < 3
    THEN [ok |-> FALSE, err |-> "TargetNotFound", t |-> NoTarget]
    ELSE [ok |-> TRUE, err |-> "none",
          t |-> [triple |-> triple,
                 arch   |-> parts[1],
                 vendor |-> parts[2],
                 os     |-> parts[3],
                 env    |-> IF Len(parts) >= 4
                            THEN <<SubSeq(parts, 4, Len(parts))>>
                            ELSE <<>>]]

(* Target::detect_host: `rustc -vV` may fail; its host line is parsed. *)
detect_host(w) ==
    {[ok |-> FALSE, err |-> "Toolchain", t |-> NoTarget]}
    \cup {from_triple(w.host)}

(* Variant: the host's own triple is given the linker gcc. *)
get_requirements_native_gcc(t) ==
    IF t.os = "linux" /\ t.arch = "x86_64"
    THEN [linker |-> <<"gcc">>, tools |-> <<"gcc">>, env_vars |-> <<>>]
    ELSE [linker |-> <<>>, tools |-> <<>>, env_vars |-> <<>>]

(* Target::get_requirements: the linker, the tools and the names of the    *)
(* variables of the match table.  The wasm32 arm adds nothing and is part  *)
(* of the last case.                                                       *)
get_requirements(t) ==
    LET none == [linker |-> <<>>, tools |-> <<>>, env_vars |-> <<>>]
        with(l) == [linker |-> <<l>>, tools |-> <<l>>, env_vars |-> <<>>]
    IN  CASE t.os = "linux" /\ t.arch = "aarch64" /\ t.env = <<(<<"gnu">>)>>
               -> with("aarch64-linux-gnu-gcc")
          [] t.os = "linux" /\ t.arch = "aarch64" /\ t.env = <<(<<"musl">>)>>
               -> with("aarch64-linux-musl-gcc")
          [] t.os = "linux" /\ t.arch = "armv7" -> with("arm-linux-gnueabihf-gcc")
          [] t.os = "linux" /\ t.arch = "arm"   -> with("arm-linux-gnueabi-gcc")
          [] t.os = "windows" /\ t.arch = "x86_64" /\ t.env = <<(<<"gnu">>)>>
               -> with("x86_64-w64-mingw32-gcc")
          [] t.os = "windows" /\ t.arch = "i686" /\ t.env = <<(<<"gnu">>)>>
               -> with("i686-w64-mingw32-gcc")
          [] t.os = "windows" /\ t.env = <<(<<"msvc">>)>>
               -> [linker |-> <<>>, tools |-> <<"cl.exe">>, env_vars |-> <<>>]
          [] t.os = "android"
               -> [linker |-> <<>>, tools |-> <<"ndk-build">>,
                   env_vars |-> <<"ANDROID_NDK_HOME">>]
          [] t.os = "ios" \/ (t.os = "darwin" /\ t.env = <<(<<"ios">>)>>)
               -> [linker |-> <<>>, tools |-> <<"xcrun">>, env_vars |-> <<>>]
          [] OTHER -> none

-----------------------------------------------------------------------------
(* Outcome records.  `result` is "Ok" or the Error variant returned;       *)
(* `strategy` is the strategy the call selected ("none" until one is);     *)
(* `trace` lists, in order, the calls the function made, a failed call     *)
(* carrying the suffix ":err"; `engine` is the container engine used.      *)

(* An environment map: variable name |-> value.  A name is the sequence of  *)
(* its '_'-separated parts as the code builds it; a value is a path, the   *)
(* sequence of its components (a bare program name has one component).     *)
EmptyEnv == [k \in {} |-> <<>>]

(* HashMap::insert / Command::env: the later value of a key replaces the   *)
(* earlier one.                                                            *)
env_insert(env, k, v) ==
    [x \in DOMAIN env \cup {k} |-> IF x = k THEN v ELSE env[x]]

NoCall == [result |-> "Pending", strategy |-> "none", trace |-> <<>>,
           triple |-> <<>>, engine |-> "none", linker |-> <<>>, env |-> EmptyEnv]

Log(r, ev) == [r EXCEPT !.trace = Append(@, ev)]

Fail(r, ev, kind) == [r EXCEPT !.trace = Append(@, ev), !.result = kind]

Has(r, ev) == \E i \in 1..Len(r.trace) : r.trace[i] = ev

Count(r, ev) == Cardinality({i \in 1..Len(r.trace) : r.trace[i] = ev})

ContainerErrors == {"Container", "ContainerNotAvailable"}

-----------------------------------------------------------------------------
(* toolchain/zig.rs *)

ZigSupported ==
    { <<"x86_64", "unknown", "linux", "gnu">>,
      <<"aarch64", "unknown", "linux", "gnu">>,
      <<"armv7", "unknown", "linux", "gnueabihf">>,
      <<"i686", "unknown", "linux", "gnu">>,
      <<"arm", "unknown", "linux", "gnueabihf">>,
      <<"x86_64", "unknown", "linux", "musl">>,
      <<"aarch64", "unknown", "linux", "musl">>,
      <<"x86_64", "pc", "windows", "gnu">>,
      <<"i686", "pc", "windows", "gnu">> }

supports_target_name(triple) == triple \in ZigSupported

supports_target(t) == supports_target_name(t.triple)

(* str::to_uppercase on the segments of the triples in use *)
to_uppercase(s) ==
    CASE s = "x86_64"  -> "X86_64"
      [] s = "aarch64" -> "AARCH64"
      [] s = "armv7"   -> "ARMV7"
      [] s = "arm"     -> "ARM"
      [] s = "i686"    -> "I686"
      [] s = "unknown" -> "UNKNOWN"
      [] s = "pc"      -> "PC"
      [] s = "apple"   -> "APPLE"
      [] s = "linux"   -> "LINUX"
      [] s = "windows" -> "WINDOWS"
      [] s = "darwin"  -> "DARWIN"
      [] s = "gnu"     -> "GNU"
      [] s = "musl"    -> "MUSL"
      [] s = "msvc"    -> "MSVC"
      [] s = "gnueabihf" -> "GNUEABIHF"
      [] OTHER -> s

(* format!("CARGO_TARGET_{}_LINKER", triple.to_uppercase().replace('-', "_")) *)
linker_env_var(triple) ==
    <<"CARGO_TARGET">> \o [i \in 1..Len(triple) |-> to_uppercase(triple[i])] \o <<"LINKER">>

(* cache_dir.join(format!("{}-cc", target.triple)) *)
cc_wrapper_path(triple) == <<"zig-wrappers">> \o triple \o <<"cc">>

(* cache_dir.join("zig-ar"), the same for all targets *)
ar_wrapper_path == <<"zig-wrappers", "zig", "ar">>

(* Variant: the linker variable points to the archiver shim. *)
zig_environment_ar_linker(triple) ==
    env_insert(env_insert(env_insert(EmptyEnv,
        <<"CC">>, cc_wrapper_path(triple)),
        <<"AR">>, ar_wrapper_path),
        linker_env_var(triple), ar_wrapper_path)

(* The map environment_for_target builds from the wrappers *)
zig_environment(triple) ==
    env_insert(env_insert(env_insert(EmptyEnv,
        <<"CC">>, cc_wrapper_path(triple)),
        <<"AR">>, ar_wrapper_path),
        linker_env_var(triple), cc_wrapper_path(triple))

(* ZigToolchain::environment_for_target: an unsupported target is a        *)
(* toolchain error; writing the shims may fail with a toolchain error.     *)
environment_for_target(t, r) ==
    IF ~supports_target(t)
    THEN {Fail(r, "environment_for_target:err", "Toolchain")}
    ELSE {Fail(r, "environment_for_target:err", "Toolchain"),
          [Log(r, "environment_for_target") EXCEPT !.env = zig_environment(t.triple)]}

-----------------------------------------------------------------------------
(* container/runtime.rs, container/images.rs, container/mod.rs *)

(* str::to_lowercase on the runtime names the configurations use *)
to_lowercase(s) ==
    CASE s = "Docker" -> "docker"
      [] s = "PODMAN" -> "podman"
      [] OTHER -> s

RuntimeType_from_str(s) ==
    LET l == to_lowercase(s) IN
    CASE l = "auto"   -> [ok |-> TRUE,  v |-> "Auto"]
      [] l = "docker" -> [ok |-> TRUE,  v |-> "Docker"]
      [] l = "podman" -> [ok |-> TRUE,  v |-> "Podman"]
      [] OTHER        -> [ok |-> FALSE, v |-> "Config"]

valid_runtimes == {"auto", "youki", "docker", "podman"}

(* Config::validate, the runtime check *)
validate(config) ==
    IF config.container.runtime \notin valid_runtimes THEN "Config" ELSE "Ok"

(* Variant: an explicitly chosen Docker falls back to Podman. *)
create_runtime_fallback(runtime_type, r) ==
    LET docker_ok  == [Log(r, "docker --version") EXCEPT !.engine = "docker"]
        docker_err == Log(r, "docker --version:err")
        podman_ok(x)  == [Log(x, "podman --version") EXCEPT !.engine = "podman"]
        podman_err(x) == Log(x, "podman --version:err")
        not_found(x)  == Fail(x, "create_runtime:err", "ContainerNotAvailable")
    IN  CASE runtime_type \in {"Auto", "Docker"} ->
               {docker_ok, podman_ok(docker_err), not_found(podman_err(docker_err))}
          [] runtime_type = "Podman" ->
               {podman_ok(r), not_found(podman_err(r))}

(* create_runtime: the probes `docker --version` and `podman --version`    *)
(* each succeed or fail.                                                   *)
create_runtime(runtime_type, r) ==
    LET docker_ok  == [Log(r, "docker --version") EXCEPT !.engine = "docker"]
        docker_err == Log(r, "docker --version:err")
        podman_ok(x)  == [Log(x, "podman --version") EXCEPT !.engine = "podman"]
        podman_err(x) == Log(x, "podman --version:err")
        not_found(x)  == Fail(x, "create_runtime:err", "ContainerNotAvailable")
    IN  CASE runtime_type = "Auto" ->
               {docker_ok, podman_ok(docker_err), not_found(podman_err(docker_err))}
          [] runtime_type = "Docker" ->
               {docker_ok, not_found(docker_err)}
          [] runtime_type = "Podman" ->
               {podman_ok(r), not_found(podman_err(r))}

ImageTargets ==
    { <<"x86_64", "unknown", "linux", "gnu">>,
      <<"x86_64", "unknown", "linux", "musl">>,
      <<"aarch64", "unknown", "linux", "gnu">>,
      <<"aarch64", "unknown", "linux", "musl">>,
      <<"armv7", "unknown", "linux", "gnueabihf">>,
      <<"arm", "unknown", "linux", "gnueabihf">>,
      <<"x86_64", "pc", "windows", "gnu">>,
      <<"aarch64", "linux", "android">>,
      <<"armv7", "linux", "androideabi">>,
      <<"x86_64", "linux", "android">>,
      <<"i686", "linux", "android">> }

(* ImageSelector::supported_targets, in the order of the list *)
supported_targets ==
    << <<"x86_64", "unknown", "linux", "gnu">>,
       <<"x86_64", "unknown", "linux", "musl">>,
       <<"aarch64", "unknown", "linux", "gnu">>,
       <<"aarch64", "unknown", "linux", "musl">>,
       <<"armv7", "unknown", "linux", "gnueabihf">>,
       <<"arm", "unknown", "linux", "gnueabihf">>,
       <<"x86_64", "pc", "windows", "gnu">>,
       <<"aarch64", "linux", "android">>,
       <<"armv7", "linux", "androideabi">>,
       <<"x86_64", "linux", "android">>,
       <<"i686", "linux", "android">> >>

(* The text of the container error of a failed image lookup *)
image_error(triple) ==
    CASE triple \in {<<"x86_64", "apple", "darwin">>, <<"aarch64", "apple", "darwin">>}
           -> [text |-> "No container image available for macOS target", names |-> triple,
               remedy |-> "Consider using osxcross or build on macOS"]
      [] triple = <<"wasm32", "unknown", "unknown">>
           -> [text |-> "WebAssembly doesn't require containers", names |-> <<>>,
               remedy |-> "use native build"]
      [] OTHER
           -> [text |-> "No container image mapping for target", names |-> triple,
               remedy |-> "You can specify a custom image in xcargo.toml"]

NoImageError == [text |-> "", names |-> <<>>, remedy |-> ""]

(* Variant: the WebAssembly triple is given an image. *)
select_for_target_wasm(triple) ==
    IF triple \in ImageTargets \cup {<<"wasm32", "unknown", "unknown">>}
    THEN [ok |-> TRUE, err |-> "none", target |-> triple, msg |-> NoImageError]
    ELSE [ok |-> FALSE, err |-> "Container", target |-> triple, msg |-> image_error(triple)]

(* ImageSelector::select_for_target *)
select_for_target(triple) ==
    IF triple \in ImageTargets
    THEN [ok |-> TRUE, err |-> "none", target |-> triple, msg |-> NoImageError]
    ELSE [ok |-> FALSE, err |-> "Container", target |-> triple, msg |-> image_error(triple)]

(* The engine's is_available(): the version probe is run again. *)
is_available(r) ==
    {[ok |-> TRUE, r |-> Log(r, "is_available")],
     [ok |-> FALSE, r |-> Log(r, "is_available:err")]}

(* Variant: a failed image pull is ignored and the container is run. *)
ContainerBuilder_build_ignore_pull(triple, image_given, r) ==
    UNION { IF ~a.ok
            THEN {[a.r EXCEPT !.result = "Container"]}
            ELSE LET img == IF image_given THEN [ok |-> TRUE] ELSE select_for_target(triple)
                     s   == IF image_given THEN a.r ELSE Log(a.r, "select_image")
                 IN  IF ~img.ok
                     THEN {Fail(a.r, "select_image:err", "Container")}
                     ELSE {Fail(Log(s, "pull_image:err"), "run:err", "Container"),
                           [Log(Log(s, "pull_image:err"), "run") EXCEPT !.result = "Ok"],
                           Fail(Log(s, "pull_image"), "current_dir:err", "Container"),
                           Fail(Log(s, "pull_image"), "run:err", "Container"),
                           [Log(Log(s, "pull_image"), "run") EXCEPT !.result = "Ok"]}
          : a \in is_available(r) }

(* ContainerBuilder::build: availability, image (selected when the given   *)
(* configuration names none), pull, current directory, run.                *)
ContainerBuilder_build(triple, image_given, r) ==
    UNION { IF ~a.ok
            THEN {[a.r EXCEPT !.result = "Container"]}
            ELSE LET img == IF image_given THEN [ok |-> TRUE] ELSE select_for_target(triple)
                     s   == IF image_given THEN a.r ELSE Log(a.r, "select_image")
                 IN  IF ~img.ok
                     THEN {Fail(a.r, "select_image:err", "Container")}
                     ELSE {Fail(s, "pull_image:err", "Container"),
                           Fail(Log(s, "pull_image"), "current_dir:err", "Container"),
                           Fail(Log(s, "pull_image"), "run:err", "Container"),
                           [Log(Log(s, "pull_image"), "run") EXCEPT !.result = "Ok"]}
          : a \in is_available(r) }

(* ContainerBuilder::new(runtime_type)?.build(target, cargo_args, config) *)
ContainerBuilder_new_build(runtime_type, triple, image_given, r) ==
    UNION { IF c.result # "Pending" THEN {c}
            ELSE ContainerBuilder_build(triple, image_given, c)
          : c \in create_runtime(runtime_type, r) }

-----------------------------------------------------------------------------
(* build/executor.rs: Builder *)

(* Config::get_target_config *)
get_target_config(config, triple) ==
    IF triple \in DOMAIN config.targets.custom
    THEN <<config.targets.custom[triple]>>
    ELSE <<>>

(* Variant: the policy compares the architectures instead of the OSes. *)
use_when_holds_arch(use_when, t, host) ==
    CASE use_when = "always" -> TRUE
      [] use_when = "never" -> FALSE
      [] use_when = "target.os != host.os" -> t.arch # host.arch
      [] OTHER -> FALSE

(* The use_when match of should_use_container_for_target *)
use_when_holds(use_when, t, host) ==
    CASE use_when = "always" -> TRUE
      [] use_when = "never" -> FALSE
      [] use_when = "target.os != host.os" -> t.os # host.os
      [] OTHER -> FALSE

(* Variant: the policy is not consulted, as in a build without the         *)
(* container feature.                                                      *)
should_use_container_for_target_off(b, t, w, r) ==
    {[ok |-> TRUE, v |-> FALSE, r |-> r]}

(* Builder::should_use_container_for_target: without the container feature *)
(* it is Ok(false); with it the host is detected first.                    *)
should_use_container_for_target(b, t, w, r) ==
    IF ~w.container_feature
    THEN {[ok |-> TRUE, v |-> FALSE, r |-> r]}
    ELSE { IF ~h.ok
           THEN [ok |-> FALSE, v |-> FALSE, r |-> Fail(r, "detect_host:err", h.err)]
           ELSE [ok |-> TRUE,
                 v  |-> use_when_holds(b.config.container.use_when, t, h.t),
                 r  |-> Log(Log(r, "detect_host"), "should_use_container_for_target")]
         : h \in detect_host(w) }

(* Variant: a forced wrapper is honoured before the container request. *)
should_use_container_unless_zig(b, t, o, w, r) ==
    IF o.use_container /\ o.use_zig # "Some(true)"
    THEN {[ok |-> TRUE, v |-> TRUE, r |-> r]}
    ELSE should_use_container_for_target(b, t, w, r)

(* `options.use_container || self.should_use_container_for_target(&target)?` *)
should_use_container(b, t, o, w, r) ==
    IF o.use_container
    THEN {[ok |-> TRUE, v |-> TRUE, r |-> r]}
    ELSE should_use_container_for_target(b, t, w, r)

(* RuntimeType::from_str(&self.config.container.runtime).unwrap_or(Auto) *)
runtime_type_of(config) ==
    LET p == RuntimeType_from_str(config.container.runtime) IN
    IF p.ok THEN p.v ELSE "Auto"

(* Builder::build_with_container *)
build_with_container(b, t, o, w, r0) ==
    LET r == [Log(r0, "build_with_container") EXCEPT !.strategy = "Container"] IN
    IF ~w.container_feature
    THEN {Fail(r, "container_feature:err", "Container")}
    ELSE
    UNION { IF c.result # "Pending" THEN {c}
            ELSE UNION { IF ~a.ok
                         THEN {[a.r EXCEPT !.result = "Container"]}
                         ELSE LET image == select_for_target(t.triple) IN
                              IF ~image.ok
                              THEN {Fail(a.r, "select_image:err", image.err)}
                              ELSE ContainerBuilder_build(t.triple, TRUE,
                                                          Log(a.r, "select_image"))
                       : a \in is_available(c) }
          : c \in create_runtime(runtime_type_of(b.config), r) }

(* `options.use_zig == Some(false)`: the caller disabled Zig *)
zig_disabled(o) == o.use_zig = "Some(false)"

(* Variant: automatic mode tries Zig for every target. *)
zig_skipped_never(force_zig, is_cross_os) == FALSE

(* `!force_zig && !is_cross_os`: automatic mode only tries Zig across OSes *)
zig_skipped(force_zig, is_cross_os) == ~force_zig /\ ~is_cross_os

(* Variant: a forced wrapper falls back to the native toolchain. *)
zig_unavailable_fallback(force_zig, r, ev) ==
    {[res |-> "None", r |-> r]}

(* Variant: automatic mode fails like forced mode. *)
zig_unavailable_strict(force_zig, r, ev) ==
    {[res |-> "Err", r |-> Fail(r, ev, "Toolchain")]}

(* Zig is missing (ev = "zig:not_found") or does not support the target    *)
(* (ev = "zig:unsupported"): an error when forced, Ok(None) otherwise.     *)
zig_unavailable(force_zig, r, ev) ==
    IF force_zig
    THEN {[res |-> "Err", r |-> Fail(r, ev, "Toolchain")]}
    ELSE {[res |-> "None", r |-> r]}

(* Builder::try_zig_cross_compilation.  res is "Err", "None" or "Some". *)
try_zig_cross_compilation(b, t, o, w, r0) ==
    LET r == Log(r0, "try_zig_cross_compilation") IN
    IF zig_disabled(o)
    THEN {[res |-> "None", r |-> r]}
    ELSE
    LET force_zig == (o.use_zig = "Some(true)") IN
    UNION { IF ~h.ok
            THEN {[res |-> "Err", r |-> Fail(r, "detect_host:err", h.err)]}
            ELSE LET host == h.t
                     is_cross_os == (t.os # host.os)
                     rh == Log(r, "detect_host")
                 IN  IF zig_skipped(force_zig, is_cross_os)
                     THEN {[res |-> "None", r |-> rh]}
                     ELSE IF b.zig_toolchain
                     THEN IF supports_target(t)
                          THEN { [res |-> IF e.result = "Pending" THEN "Some" ELSE "Err",
                                  r   |-> e]
                               : e \in environment_for_target(t, rh) }
                          ELSE zig_unavailable(force_zig, rh, "zig:unsupported")
                     ELSE zig_unavailable(force_zig, rh, "zig:not_found")
          : h \in detect_host(w) }

(* Builder::build, "Check linker configuration": none with Zig, the        *)
(* target's configuration section when there is one, else the requirements *)
resolve_linker(using_zig, target_config, requirements) ==
    IF using_zig THEN <<>>
    ELSE IF target_config # <<>> THEN target_config[1].linker
    ELSE requirements.linker

(* Variant: the strategy's value of a variable is kept on a collision. *)
env_extend_keep(env, more) ==
    [x \in DOMAIN env \cup DOMAIN more |-> IF x \in DOMAIN env THEN env[x] ELSE more[x]]

(* cmd.env(key, value) for every entry of a map, on top of what is set *)
env_extend(env, more) ==
    [x \in DOMAIN env \cup DOMAIN more |-> IF x \in DOMAIN more THEN more[x] ELSE env[x]]

(* Builder::build, "Build cargo command": the environment of the driver.   *)
(* zig_env is applied first, then the linker variable (not with Zig), then *)
(* the target's configured env, then its RUSTFLAGS.                        *)
cargo_env(using_zig, zig_env, linker, target_config, triple) ==
    LET e1 == IF using_zig THEN zig_env ELSE EmptyEnv
        e2 == IF ~using_zig /\ linker # <<>>
              THEN env_insert(e1, linker_env_var(triple), linker)
              ELSE e1
        e3 == IF target_config # <<>> THEN env_extend(e2, target_config[1].env) ELSE e2
    IN  IF target_config # <<>> /\ target_config[1].rustflags # <<>>
        THEN env_insert(e3, <<"RUSTFLAGS">>, target_config[1].rustflags[1])
        ELSE e3

(* Builder::build from "Determine toolchain" on: toolchain preparation,    *)
(* the linker, the build driver (cargo) and the tips after it.             *)
build_native(b, t, o, w, using_zig, r0) ==
    LET target_config == get_target_config(b.config, t.triple)
        requirements  == get_requirements(t)
        linker == resolve_linker(using_zig, target_config, requirements)
        DetectThen(r, K(_)) ==
            UNION { IF ~h.ok THEN {Fail(r, "detect_host:err", h.err)}
                    ELSE K(Log(r, "detect_host"))
                  : h \in detect_host(w) }
        Done(r)     == {[r EXCEPT !.result = "Ok"]}
        BuildErr(r) == {[r EXCEPT !.result = "Build"]}
        LinuxTip(r) == IF t.os = "linux" THEN DetectThen(r, Done) ELSE Done(r)
        Succeeded(r) ==
            IF o.operation # "Check"
            THEN IF t.os = "windows" THEN DetectThen(r, LinuxTip) ELSE LinuxTip(r)
            ELSE Done(r)
        Failed(r) ==
            IF linker = <<>> /\ requirements.linker # <<>>
            THEN DetectThen(r, BuildErr)
            ELSE BuildErr(r)
        Cargo(r) ==
            LET rl == [r EXCEPT !.linker = linker,
                                !.env = cargo_env(using_zig, r0.env, linker,
                                                  target_config, t.triple)] IN
            {Fail(rl, "cargo:spawn_err", "Build")}
            \cup Succeeded(Log(rl, "cargo"))
            \cup Failed(Log(rl, "cargo:err"))
        Which(r) == Cargo(Log(r, "which")) \cup DetectThen(Log(r, "which:err"), Cargo)
        Verify(r) ==
            IF using_zig THEN Cargo(r)
            ELSE IF linker # <<>> THEN Which(r)
            ELSE IF requirements.linker # <<>> THEN Which(r)
            ELSE Cargo(r)
        r1 == [r0 EXCEPT !.strategy = IF using_zig THEN "Zig" ELSE "Native"]
    IN  {Fail(r1, "prepare_target:err", "Toolchain")}
        \cup DetectThen(Log(r1, "prepare_target"), Verify)

(* Variant: the configured default wins over the explicit flag. *)
resolve_target_triple_config_first(b, o, w, r) ==
    IF b.config.targets.default # <<>>
    THEN {[r EXCEPT !.triple = b.config.targets.default[1]]}
    ELSE IF o.target # <<>>
    THEN {[r EXCEPT !.triple = o.target[1]]}
    ELSE { IF ~h.ok THEN Fail(r, "detect_host:err", h.err)
           ELSE [Log(r, "detect_host") EXCEPT !.triple = h.t.triple]
         : h \in detect_host(w) }

(* Builder::build, "Determine target": flag, configured default, host. *)
resolve_target_triple(b, o, w, r) ==
    IF o.target # <<>>
    THEN {[r EXCEPT !.triple = o.target[1]]}
    ELSE IF b.config.targets.default # <<>>
    THEN {[r EXCEPT !.triple = b.config.targets.default[1]]}
    ELSE { IF ~h.ok THEN Fail(r, "detect_host:err", h.err)
           ELSE [Log(r, "detect_host") EXCEPT !.triple = h.t.triple]
         : h \in detect_host(w) }

(* Builder::build from "Parse target" to the end. *)
build_target(b, o, w, r0) ==
    LET p == from_triple(r0.triple) IN
    IF ~p.ok THEN {Fail(r0, "from_triple:err", p.err)}
    ELSE
    LET t == p.t
        r == Log(r0, "from_triple")
    IN  UNION { IF ~c.ok THEN {c.r}
                ELSE IF c.v THEN build_with_container(b, t, o, w, c.r)
                ELSE UNION { IF z.res = "Err" THEN {z.r}
                             ELSE build_native(b, t, o, w, z.res = "Some", z.r)
                           : z \in try_zig_cross_compilation(b, t, o, w, c.r) }
              : c \in should_use_container(b, t, o, w, r) }

(* Builder::build *)
build(b, o, w) ==
    {Fail(NoCall, "has_cargo_toml:err", "Config")}
    \cup UNION { IF r.result # "Pending" THEN {r} ELSE build_target(b, o, w, r)
               : r \in resolve_target_triple(b, o, w, Log(NoCall, "has_cargo_toml")) }

(* Builder::new / Builder::with_config: ZigToolchain::detect().ok().flatten() *)
Builder_with_config(config, w) == [config |-> config, zig_toolchain |-> w.zig]

Builder_new(w) == Builder_with_config(w.discovered, w)

-----------------------------------------------------------------------------
(* Inputs *)

UseZig == {"None", "Some(true)", "Some(false)"}

UseWhen == {"always", "never", "target.os != host.os", "sometimes"}

Runtimes == {"auto", "docker", "youki", "Docker"}

Config_default ==
    [targets   |-> [default |-> <<>>, custom |-> <<>>],
     container |-> [runtime |-> "auto", use_when |-> "target.os != host.os"]]

(* [targets."x86_64-pc-windows-gnu"] sections: a linker only; a linker and *)
(* an env that also sets CC and the linker variable; an env and rustflags  *)
(* without a linker.                                                       *)
CustomLinker ==
    (WindowsGnu :> [linker |-> <<"custom-ld">>, env |-> EmptyEnv, rustflags |-> <<>>])

CustomEnv ==
    (WindowsGnu :> [linker |-> <<"custom-ld">>,
                    env |-> (<<"CC">> :> <<"custom-cc">>)
                            @@ (linker_env_var(WindowsGnu) :> <<"env-ld">>),
                    rustflags |-> <<>>])

CustomNoLinker ==
    (WindowsGnu :> [linker |-> <<>>,
                    env |-> (<<"CC">> :> <<"custom-cc">>),
                    rustflags |-> << <<"-C", "target-feature=+crt-static">> >>])

Configs ==
    { [Config_default EXCEPT !.container = [runtime |-> rt, use_when |-> uw]]
      : rt \in Runtimes, uw \in UseWhen }
    \cup { [Config_default EXCEPT !.targets.default = <<WindowsGnu>>],
           [Config_default EXCEPT !.targets.default = <<Aarch64Gnu, WindowsGnu>>],
           [Config_default EXCEPT !.targets.custom = CustomLinker],
           [Config_default EXCEPT !.targets.custom = CustomEnv],
           [Config_default EXCEPT !.targets.custom = CustomNoLinker] }

Worlds ==
    [host : Hosts, zig : BOOLEAN, discovered : {Config_default},
     container_feature : BOOLEAN]

Options ==
    [target : {<<>>} \cup {<<t>> : t \in Triples},
     use_container : BOOLEAN, use_zig : UseZig, operation : {"Build", "Check"}]

MaxTargets == 2

(* Target lists and inputs of the multi-target runs *)
MultiTriples == {LinuxGnu, WindowsGnu, Malformed}

RECURSIVE SeqsUpTo(_, _)
SeqsUpTo(S, n) ==
    IF n = 0 THEN {<<>>}
    ELSE LET shorter == SeqsUpTo(S, n - 1) IN
         shorter \cup {Append(q, x) : q \in {y \in shorter : Len(y) = n - 1}, x \in S}

MultiConfigs ==
    { [Config_default EXCEPT !.container.use_when = uw] : uw \in {"never", "always"} }

MultiWorlds ==
    [host : {LinuxGnu}, zig : BOOLEAN, discovered : {Config_default},
     container_feature : {TRUE}]

MultiOptions ==
    [target : {<<>>}, use_container : {FALSE}, use_zig : {"None", "Some(true)"},
     operation : {"Build"}]

(* What an orchestrator keeps of a per-target result *)
NoRes == [result |-> "Pending", strategy |-> "none"]

Summary(r) == [result |-> r.result, strategy |-> r.strategy]

Indices == 1..Len(targets)

-----------------------------------------------------------------------------
(* The Zig wrapper cache (~/.xcargo/zig-wrappers) and the tasks that call   *)
(* ZigToolchain::environment_for_target on it.  A shim file has a content  *)
(* ("absent", "partial" between the truncating open and the end of the     *)
(* write, "full") and an executable bit.                                   *)

MaxShimCalls == 2

(* Two concurrent tasks, the fewest that can race on the cache *)
ShimTasks == {1, 2}

ShimTriples == {LinuxGnu, WindowsGnu, WindowsMsvc}

ShimPaths == {cc_wrapper_path(t) : t \in ShimTriples \cap ZigSupported} \cup {ar_wrapper_path}

AbsentFile == [content |-> "absent", exec |-> FALSE]

ReadyFile == [content |-> "full", exec |-> TRUE]

NoShimResult == [result |-> "Pending", env |-> EmptyEnv]

NotSeen == [cc |-> AbsentFile, ar |-> AbsentFile]

(* An empty cache and no call in progress *)
InitShims ==
    /\ cache_dir = FALSE
    /\ cache = [p \in ShimPaths |-> AbsentFile]
    /\ zpc = [i \in ShimTasks |-> "idle"]
    /\ ztarget = [i \in ShimTasks |-> <<>>]
    /\ zres = [i \in ShimTasks |-> NoShimResult]
    /\ zseen = [i \in ShimTasks |-> NotSeen]
    /\ zwrote = [i \in ShimTasks |-> {}]
    /\ zhad = [i \in ShimTasks |-> FALSE]
    /\ zcalls = [i \in ShimTasks |-> 0]
    /\ cleaned = FALSE

-----------------------------------------------------------------------------
InitBuild ==
    /\ entry = "build"
    /\ world \in Worlds
    /\ \E c \in Configs : self = Builder_with_config(c, world)
    /\ options \in Options
    /\ targets = <<>>
    /\ mpc = "call"

InitBuildAll ==
    /\ entry \in {"build_all", "build_all_parallel"}
    /\ world \in MultiWorlds
    /\ \/ self = Builder_new(world)
       \/ \E c \in MultiConfigs : self = Builder_with_config(c, world)
    /\ options \in MultiOptions
    /\ targets \in SeqsUpTo(MultiTriples, MaxTargets)
    /\ mpc = IF entry = "build_all" THEN "loop" ELSE "spawn"

(* The container library called on its own: ContainerBuilder::new with a   *)
(* runtime type, then build with a ContainerConfig whose image is empty or *)
(* set.                                                                    *)
ContainerOptions ==
    [target : {<<t>> : t \in {LinuxGnu, WindowsGnu, AppleDarwin}},
     use_container : {TRUE}, use_zig : {"None"}, operation : {"Build"},
     runtime : {"Auto", "Docker", "Podman"}, image : {<<>>, <<"custom-image">>}]

InitContainerBuild ==
    /\ entry = "container_build"
    /\ world \in [host : {LinuxGnu}, zig : {FALSE}, discovered : {Config_default},
                   container_feature : {TRUE}]
    /\ self = Builder_new(world)
    /\ options \in ContainerOptions
    /\ targets = <<>>
    /\ mpc = "call"

Init ==
    /\ InitBuild \/ InitBuildAll \/ InitContainerBuild
    /\ call = NoCall
    /\ ret = "Pending"
    /\ successes = <<>>
    /\ failures = <<>>
    /\ idx = 1
    /\ tpc = [i \in Indices |-> "idle"]
    /\ tres = [i \in Indices |-> NoRes]
    /\ tsnap = [i \in Indices |-> <<>>]
    /\ mutex = [successes |-> 0, failures |-> 0]
    /\ InitShims
    /\ InitAside

multi == <<successes, failures, idx, tpc, tres, tsnap, mutex>>

(* A single-target run: main calls builder.build(&options). *)
Build ==
    /\ entry = "build"
    /\ mpc = "call"
    /\ \E r \in build(self, options, world) :
          /\ call' = r
          /\ ret' = r.result
    /\ mpc' = "done"
    /\ UNCHANGED <<entry, self, options, targets, world>>
    /\ UNCHANGED multi
    /\ UNCHANGED <<shim, aside>>

(* A container build made through the container library alone. *)
ContainerBuild ==
    /\ entry = "container_build"
    /\ mpc = "call"
    /\ \E r \in ContainerBuilder_new_build(options.runtime, options.target[1],
                                           options.image # <<>>,
                                           [NoCall EXCEPT !.triple = options.target[1],
                                                          !.strategy = "Container"]) :
          /\ call' = r
          /\ ret' = r.result
    /\ mpc' = "done"
    /\ UNCHANGED <<entry, self, options, targets, world>>
    /\ UNCHANGED multi
    /\ UNCHANGED <<shim, aside>>

(* target_options = options.clone(); target_options.target = Some(target) *)
target_options(o, target) == [o EXCEPT !.target = <<target>>]

(* Variant: a target that does not parse is skipped as if it had built. *)
list_of_lenient(res) ==
    IF res.result \in {"Ok", "TargetNotFound"} THEN "successes" ELSE "failures"

(* The list a result is pushed to: Ok(()) => successes, Err(e) => failures *)
list_of(res) == IF res.result = "Ok" THEN "successes" ELSE "failures"

(* build_all: one iteration of the for loop. *)
BuildAllStep ==
    /\ entry = "build_all"
    /\ mpc = "loop"
    /\ idx <= Len(targets)
    /\ \E r \in build(self, target_options(options, targets[idx]), world) :
          /\ tres' = [tres EXCEPT ![idx] = Summary(r)]
          /\ IF list_of(r) = "successes"
             THEN /\ successes' = Append(successes, targets[idx])
                  /\ UNCHANGED failures
             ELSE /\ failures' = Append(failures, targets[idx])
                  /\ UNCHANGED successes
    /\ tpc' = [tpc EXCEPT ![idx] = "done"]
    /\ idx' = idx + 1
    /\ UNCHANGED <<entry, self, options, targets, world, call, ret, mpc, tsnap, mutex>>
    /\ UNCHANGED <<shim, aside>>

(* Variant: a single failure is tolerated. *)
verdict_tolerant(fails) == IF Len(fails) > 1 THEN "Build: Some targets failed to build" ELSE "Ok"

(* The verdict both orchestrators compute from the failure list *)
AggregateFailure == "Build: Some targets failed to build"

verdict(fails) == IF fails # <<>> THEN AggregateFailure ELSE "Ok"

(* build_all: the summary after the loop. *)
BuildAllSummary ==
    /\ entry = "build_all"
    /\ mpc = "loop"
    /\ idx > Len(targets)
    /\ ret' = verdict(failures)
    /\ mpc' = "done"
    /\ UNCHANGED <<entry, self, options, targets, world, call>>
    /\ UNCHANGED multi
    /\ UNCHANGED <<shim, aside>>

(* Variant: a task is spawned only once the tasks before it have ended. *)
can_spawn_after_join(pcs, i) == \A j \in 1..(i - 1) : pcs[j] = "done"

(* The spawn loop hands each closure to task::spawn_blocking and goes on:  *)
(* it awaits nothing before every task is spawned.                         *)
can_spawn(pcs, i) == TRUE

(* build_all_parallel: task::spawn_blocking for the next target. *)
Spawn ==
    /\ entry = "build_all_parallel"
    /\ mpc = "spawn"
    /\ idx <= Len(targets)
    /\ can_spawn(tpc, idx)
    /\ tpc' = [tpc EXCEPT ![idx] = "ready"]
    /\ idx' = idx + 1
    /\ UNCHANGED <<entry, self, options, targets, world, call, ret,
                   successes, failures, mpc, tres, tsnap, mutex>>
    /\ UNCHANGED <<shim, aside>>

(* build_all_parallel: the spawn loop is over, the await loop starts. *)
SpawnDone ==
    /\ entry = "build_all_parallel"
    /\ mpc = "spawn"
    /\ idx > Len(targets)
    /\ mpc' = "await"
    /\ idx' = 1
    /\ UNCHANGED <<entry, self, options, targets, world, call, ret,
                   successes, failures, tpc, tres, tsnap, mutex>>
    /\ UNCHANGED <<shim, aside>>

(* builder.build(&target_options) on the builder the task constructed *)
task_build_outcomes(o, w) == {Summary(r) : r \in build(Builder_new(w), o, w)}

(* What the closure of a task computes before it touches a list:           *)
(* Builder::new() (rustup may be missing, xcargo.toml unreadable), then    *)
(* builder.build(&target_options) on the new builder.                      *)
task_outcomes(o, w) ==
    {[result |-> "Toolchain", strategy |-> "none"],
     [result |-> "Config", strategy |-> "none"]}
    \cup task_build_outcomes(o, w)

(* A task runs its build. *)
TaskRun(i) ==
    /\ tpc[i] = "ready"
    /\ \E r \in task_outcomes(target_options(options, targets[i]), world) :
          tres' = [tres EXCEPT ![i] = r]
    /\ tpc' = [tpc EXCEPT ![i] = "built"]
    /\ UNCHANGED <<entry, self, options, targets, world, call, ret,
                   successes, failures, mpc, idx, tsnap, mutex>>
    /\ UNCHANGED <<shim, aside>>

(* Variant: the lists are shared without a mutex. *)
can_lock_unguarded(holder) == TRUE

(* Mutex::lock returns once no other task holds the mutex. *)
can_lock(holder) == holder = 0

(* A task locks the list its result goes to; it now reads the Vec. *)
TaskLock(i) ==
    /\ tpc[i] = "built"
    /\ LET m == list_of(tres[i]) IN
       /\ can_lock(mutex[m])
       /\ mutex' = [mutex EXCEPT ![m] = i]
       /\ tsnap' = [tsnap EXCEPT ![i] = IF m = "successes" THEN successes ELSE failures]
    /\ tpc' = [tpc EXCEPT ![i] = "locked"]
    /\ UNCHANGED <<entry, self, options, targets, world, call, ret,
                   successes, failures, mpc, idx, tres>>
    /\ UNCHANGED <<shim, aside>>

(* Vec::push under the guard, then the guard is dropped and the task ends. *)
TaskPush(i) ==
    /\ tpc[i] = "locked"
    /\ LET m == list_of(tres[i]) IN
       /\ IF m = "successes"
          THEN /\ successes' = Append(tsnap[i], targets[i])
               /\ UNCHANGED failures
          ELSE /\ failures' = Append(tsnap[i], targets[i])
               /\ UNCHANGED successes
       /\ mutex' = [mutex EXCEPT ![m] = 0]
    /\ tpc' = [tpc EXCEPT ![i] = "done"]
    /\ UNCHANGED <<entry, self, options, targets, world, call, ret,
                   mpc, idx, tres, tsnap>>
    /\ UNCHANGED <<shim, aside>>

(* handle.await returns once the task has finished.  No call of the        *)
(* closure panics, so the JoinError arm of the await loop is not taken.    *)
joined(pc) == pc = "done"

(* build_all_parallel: the await loop. *)
Await ==
    /\ entry = "build_all_parallel"
    /\ mpc = "await"
    /\ idx <= Len(targets)
    /\ joined(tpc[idx])
    /\ idx' = idx + 1
    /\ UNCHANGED <<entry, self, options, targets, world, call, ret,
                   successes, failures, mpc, tpc, tres, tsnap, mutex>>
    /\ UNCHANGED <<shim, aside>>

(* build_all_parallel: both lists are locked and the verdict is computed. *)
ParallelSummary ==
    /\ entry = "build_all_parallel"
    /\ mpc = "await"
    /\ idx > Len(targets)
    /\ can_lock(mutex.successes) /\ can_lock(mutex.failures)
    /\ ret' = verdict(failures)
    /\ mpc' = "done"
    /\ UNCHANGED <<entry, self, options, targets, world, call>>
    /\ UNCHANGED multi
    /\ UNCHANGED <<shim, aside>>

Next ==
    \/ Build
    \/ ContainerBuild
    \/ BuildAllStep
    \/ BuildAllSummary
    \/ Spawn
    \/ SpawnDone
    \/ \E i \in Indices : TaskRun(i)
    \/ \E i \in Indices : TaskLock(i)
    \/ \E i \in Indices : TaskPush(i)
    \/ Await
    \/ ParallelSummary

Spec == Init /\ [][Next]_vars

-----------------------------------------------------------------------------
(* Vocabulary of the properties *)

(* The single build() call has returned. *)
Returned == entry = "build" /\ mpc = "done"

(* Invocations of the build driver (cargo) in a call, whatever their end *)
DriverCalls(r) == Count(r, "cargo") + Count(r, "cargo:err") + Count(r, "cargo:spawn_err")

(* Toolchain preparation was reached. *)
Prepared(r) == Has(r, "prepare_target") \/ Has(r, "prepare_target:err")

(* The OS field of a triple that parses *)
OsOf(triple) == triple[3]

-----------------------------------------------------------------------------
(* C1: every build() call with use_container = true that passes the        *)
(* Cargo.toml check and target parsing selects the Container strategy,     *)
(* whatever use_zig and the container policy are; the container policy,    *)
(* wrapper evaluation, toolchain preparation and the build driver are      *)
(* never reached in that call.                                             *)
C1_ContainerForcedWins ==
    (Returned /\ options.use_container /\ Has(call, "from_triple"))
    => /\ call.strategy = "Container"
       /\ Has(call, "build_with_container")
       /\ ~Has(call, "should_use_container_for_target")
       /\ ~Has(call, "try_zig_cross_compilation")
       /\ ~Prepared(call)
       /\ DriverCalls(call) = 0

(* C1 witness: container and wrapper both forced, policy "never": Container. *)
C1_Witness ==
    /\ Returned /\ options.use_container /\ options.use_zig = "Some(true)"
    /\ self.config.container.use_when = "never"
    /\ call.strategy = "Container" /\ call.result = "Ok"

(* C2: when wrapper use is forced, the Container strategy is not selected  *)
(* (wrapper evaluation is reached) and the target is not in the wrapper's  *)
(* supported set, or the wrapper toolchain is not installed, build() fails *)
(* with a toolchain error and the build driver is never invoked.           *)
C2_ForcedWrapperIsFatal ==
    (/\ Returned /\ options.use_zig = "Some(true)"
     /\ Has(call, "try_zig_cross_compilation")
     /\ (call.triple \notin ZigSupported \/ ~self.zig_toolchain))
    => /\ call.result = "Toolchain"
       /\ call.strategy \notin {"Native", "Zig", "Container"}
       /\ ~Prepared(call)
       /\ DriverCalls(call) = 0

(* C2 witness: Zig installed, forced, for x86_64-pc-windows-msvc. *)
C2_Witness ==
    /\ Returned /\ options.use_zig = "Some(true)" /\ self.zig_toolchain
    /\ call.triple = WindowsMsvc
    /\ Has(call, "zig:unsupported") /\ call.result = "Toolchain"

(* C7: the Wrapper strategy is selected only if the caller did not disable *)
(* it, the wrapper toolchain is installed, it supports the target, and     *)
(* wrapper use is forced or the target OS differs from the host OS.        *)
C7_WrapperOnlyIfEligible ==
    (Returned /\ call.strategy = "Zig")
    => /\ options.use_zig # "Some(false)"
       /\ self.zig_toolchain
       /\ call.triple \in ZigSupported
       /\ (options.use_zig = "Some(true)" \/ OsOf(call.triple) # OsOf(world.host))

(* C7 witness: automatic mode picks the wrapper for a cross-OS target. *)
C7_Witness ==
    /\ Returned /\ call.strategy = "Zig" /\ options.use_zig = "None"
    /\ OsOf(call.triple) # OsOf(world.host) /\ call.result = "Ok"

(* C8: in automatic mode a wrapper toolchain that is missing or does not   *)
(* support the target never fails the build: wrapper evaluation returns    *)
(* without an error of its own, the Native strategy is selected, toolchain *)
(* preparation follows, and the build driver is invoked once preparation   *)
(* and host detection succeed.                                             *)
C8_AutoModeFallsThrough ==
    (/\ Returned /\ options.use_zig = "None"
     /\ Has(call, "try_zig_cross_compilation")
     /\ (call.triple \notin ZigSupported \/ ~self.zig_toolchain))
    => /\ ~Has(call, "zig:unsupported") /\ ~Has(call, "zig:not_found")
       /\ ~Has(call, "environment_for_target") /\ ~Has(call, "environment_for_target:err")
       /\ call.strategy # "Zig"
       /\ ~Has(call, "detect_host:err")
            => /\ call.strategy = "Native"
               /\ Prepared(call)
               /\ Has(call, "prepare_target") => DriverCalls(call) = 1

(* C8 witness: automatic mode, cross-OS target Zig could build, Zig not     *)
(* installed: the native build driver runs.                                *)
C8_Witness ==
    /\ Returned /\ options.use_zig = "None" /\ ~self.zig_toolchain
    /\ call.triple = WindowsGnu /\ world.host = LinuxGnu
    /\ call.strategy = "Native" /\ DriverCalls(call) = 1 /\ call.result = "Ok"

-----------------------------------------------------------------------------
(* Multi-target runs *)

(* The orchestrator has returned. *)
MultiReturned == entry \in {"build_all", "build_all_parallel"} /\ mpc = "done"

(* Occurrences of x in a list *)
Occ(list, x) == Cardinality({j \in 1..Len(list) : list[j] = x})

(* Target occurrences whose build has ended, by outcome *)
EndedOk  == {i \in Indices : tpc[i] = "done" /\ tres[i].result = "Ok"}

EndedErr == {i \in Indices : tpc[i] = "done" /\ tres[i].result \notin {"Ok", "Pending"}}

(* C3: for N targets of which K builds fail, the final failure list has    *)
(* exactly K entries, the success list N - K, and the run returns an       *)
(* error iff K > 0, in build_all and in build_all_parallel.                *)
C3_AggregationCounts ==
    MultiReturned
    => LET K == Cardinality({i \in Indices : tres[i].result # "Ok"}) IN
       /\ Len(failures) = K
       /\ Len(successes) = Len(targets) - K
       /\ ret = AggregateFailure <=> K > 0
       /\ ret = "Ok" <=> K = 0

(* C3 witness: a parallel run of two targets, one built and one failed. *)
C3_Witness ==
    /\ entry = "build_all_parallel" /\ mpc = "done" /\ Len(targets) = 2
    /\ Len(successes) = 1 /\ Len(failures) = 1 /\ ret = AggregateFailure

(* C4: in build_all_parallel, under every interleaving, each target        *)
(* occurrence whose task has finished is in exactly one list exactly once  *)
(* (nothing lost, duplicated or doubly classified), and the verdict is     *)
(* computed only after all tasks have finished.                            *)
C4_RaceFreeAggregation ==
    entry = "build_all_parallel"
    => /\ \A x \in MultiTriples :
             /\ Occ(successes, x) = Cardinality({i \in EndedOk : targets[i] = x})
             /\ Occ(failures, x) = Cardinality({i \in EndedErr : targets[i] = x})
       /\ ret # "Pending" => \A i \in Indices : tpc[i] = "done"

(* C4 witness: two tasks contend for the failure list and finish in the    *)
(* reverse of the spawn order.                                             *)
C4_Witness ==
    /\ entry = "build_all_parallel" /\ mpc = "done" /\ Len(targets) = 2
    /\ targets[1] # targets[2]
    /\ failures = <<targets[2], targets[1]>>

(* The error each failing call returns *)
RaisedBy(ev) ==
    CASE ev = "has_cargo_toml:err" -> "Config"
      [] ev = "from_triple:err" -> "TargetNotFound"
      [] ev \in {"detect_host:err", "prepare_target:err", "environment_for_target:err",
                 "zig:unsupported", "zig:not_found"} -> "Toolchain"
      [] ev = "create_runtime:err" -> "ContainerNotAvailable"
      [] ev \in {"container_feature:err", "is_available:err", "select_image:err",
                 "pull_image:err", "current_dir:err", "run:err"} -> "Container"
      [] ev \in {"cargo:err", "cargo:spawn_err"} -> "Build"
      [] OTHER -> "none"

(* The last failing call of a trace ("none" when no call failed) *)
LastFailure(r) ==
    LET bad == {i \in 1..Len(r.trace) : RaisedBy(r.trace[i]) # "none"} IN
    IF bad = {} THEN "none"
    ELSE r.trace[CHOOSE i \in bad : \A j \in bad : j <= i]

(* C5: in a multi-target run an error of one target is recorded in the     *)
(* failure list and not thrown: every target is attempted and the only     *)
(* error the orchestrator returns is the aggregate failure; a              *)
(* single-target build() returns the error of the failing call unchanged.  *)
C5_ErrorsRecordedNotThrown ==
    /\ entry \in {"build_all", "build_all_parallel"}
         => ret \in {"Pending", "Ok", AggregateFailure}
    /\ MultiReturned
         => /\ \A i \in Indices : tpc[i] = "done" /\ tres[i].result # "Pending"
            /\ \A x \in MultiTriples :
                  Occ(failures, x)
                    = Cardinality({i \in Indices : targets[i] = x /\ tres[i].result # "Ok"})
    /\ Returned
         => /\ ret = call.result
            /\ ret # "Ok" => ret = RaisedBy(LastFailure(call))
            /\ ret = "Ok" => LastFailure(call) = "none"

(* C5 witness: a sequential run whose first target does not parse still    *)
(* builds the second and returns the aggregate failure.                    *)
C5_Witness ==
    /\ entry = "build_all" /\ mpc = "done" /\ Len(targets) = 2
    /\ tres[1].result = "TargetNotFound" /\ tres[2].result = "Ok"
    /\ failures = <<targets[1]>> /\ successes = <<targets[2]>>
    /\ ret = AggregateFailure

(* C6: parallel mode has the semantics of sequential mode: the strategy    *)
(* and the result the build of a task of build_all_parallel reaches for    *)
(* its target are a strategy and a result self.build reaches for it in     *)
(* build_all under the same outcomes of the external steps.                *)
C6_ParallelAsSequential ==
    entry = "build_all_parallel"
    => \A i \in Indices :
          (/\ tpc[i] \in {"built", "locked", "done"}
           /\ tres[i] \in task_build_outcomes(target_options(options, targets[i]), world))
          => tres[i] \in { Summary(r) :
                           r \in build(self, target_options(options, targets[i]), world) }

(* C9: when the Container strategy is selected, the engine used is the     *)
(* configured one, and a configured engine that cannot be used (or no      *)
(* engine at all) is a container error, with no wrapper or native build.   *)
C9_NoEngineDowngrade ==
    (Returned /\ call.strategy = "Container")
    => /\ to_lowercase(self.config.container.runtime) # "auto"
            => call.engine \in {"none", to_lowercase(self.config.container.runtime)}
       /\ (Has(call, "create_runtime:err") \/ Has(call, "is_available:err"))
            => call.result \in ContainerErrors
       /\ ~Has(call, "try_zig_cross_compilation")
       /\ ~Prepared(call)
       /\ DriverCalls(call) = 0

-----------------------------------------------------------------------------
(* Configuration errors *)

(* The policy values should_use_container_for_target recognises *)
RecognisedPolicies == {"always", "never", "target.os != host.os"}

(* C11: a build whose container policy is not one of the recognised values *)
(* fails with a configuration error when the policy is evaluated: no       *)
(* strategy is selected and the build driver is not invoked.               *)
C11_InvalidPolicyIsConfigError ==
    (/\ Returned
     /\ self.config.container.use_when \notin RecognisedPolicies
     /\ Has(call, "should_use_container_for_target"))
    => /\ call.result = "Config"
       /\ call.strategy = "none"
       /\ DriverCalls(call) = 0

-----------------------------------------------------------------------------
(* Target resolution *)

(* C12: the effective target triple is options.target when given, else the *)
(* first configured default target when the default list is non-empty,     *)
(* else the detected host triple; the host is detected for the resolution  *)
(* only when neither of the first two is set.                              *)
C12_TargetPrecedence ==
    (Returned /\ Has(call, "has_cargo_toml"))
    => LET default == self.config.targets.default
           second  == call.trace[2]
       IN  IF options.target # <<>>
           THEN /\ call.triple = options.target[1]
                /\ second \in {"from_triple", "from_triple:err"}
           ELSE IF default # <<>>
           THEN /\ call.triple = Head(default)
                /\ second \in {"from_triple", "from_triple:err"}
           ELSE \/ second = "detect_host" /\ call.triple = world.host
                \/ /\ second = "detect_host:err" /\ Len(call.trace) = 2
                   /\ call.result = "Toolchain"

(* C12 witness: a flag and a configured default that differ: the flag wins. *)
C12_Witness ==
    /\ Returned /\ options.target = <<LinuxGnu>>
    /\ self.config.targets.default = <<Aarch64Gnu, WindowsGnu>>
    /\ call.triple = LinuxGnu /\ call.result = "Ok"

-----------------------------------------------------------------------------
(* The linker and the environment of the build driver *)

(* The single build() call ran the build driver under strategy s. *)
DriverRanUnder(s) == Returned /\ call.strategy = s /\ DriverCalls(call) = 1

(* The section of the configuration for the target of the call, if any *)
CallTargetConfig == get_target_config(self.config, call.triple)

(* C13: in the Native strategy the linker handed to the build driver is    *)
(* the linker configured for the target when one is configured, otherwise  *)
(* the linker get_requirements suggests; CARGO_TARGET_<TRIPLE>_LINKER is   *)
(* set to it (unless the configured env sets that variable itself) and is  *)
(* unset only when neither source yields a linker.                         *)
C13_NativeLinkerSource ==
    DriverRanUnder("Native")
    => LET configured == IF CallTargetConfig # <<>> THEN CallTargetConfig[1].linker ELSE <<>>
           suggested  == get_requirements(from_triple(call.triple).t).linker
           expected   == IF configured # <<>> THEN configured ELSE suggested
           var        == linker_env_var(call.triple)
           by_env     == CallTargetConfig # <<>> /\ var \in DOMAIN CallTargetConfig[1].env
       IN  /\ call.linker = expected
           /\ (var \in DOMAIN call.env /\ ~by_env) => call.env[var] = expected
           /\ var \notin DOMAIN call.env => expected = <<>>

(* The variables the selected strategy sets for the driver *)
StrategyVars ==
    IF call.strategy = "Zig" THEN DOMAIN zig_environment(call.triple)
    ELSE IF call.strategy = "Native" /\ call.linker # <<>>
    THEN {linker_env_var(call.triple)}
    ELSE {}

-----------------------------------------------------------------------------
(* The build driver *)

(* C15: every build() call that selects the Native or the Wrapper strategy *)
(* and whose toolchain preparation succeeds invokes the build driver       *)
(* exactly once, also when the linker is not found on the search path,     *)
(* and returns Ok iff that process exits with a success status.            *)
C15_DriverOnceExitDecides ==
    (/\ Returned
     /\ call.strategy \in {"Native", "Zig"}
     /\ Has(call, "prepare_target"))
    => /\ DriverCalls(call) = 1
       /\ call.result = "Ok" <=> Has(call, "cargo")

-----------------------------------------------------------------------------
(* toolchain/zig.rs: environment_for_target and create_wrappers, one       *)
(* action per file-system call, and clean_cache.                           *)

(* A task calls environment_for_target(t): an unsupported target is a      *)
(* toolchain error before anything is touched.                             *)
ZCall(i, t) ==
    /\ zpc[i] = "idle"
    /\ zcalls[i] < MaxShimCalls
    /\ zcalls' = [zcalls EXCEPT ![i] = @ + 1]
    /\ ztarget' = [ztarget EXCEPT ![i] = t]
    /\ zwrote' = [zwrote EXCEPT ![i] = {}]
    /\ zhad' = [zhad EXCEPT ![i] = /\ supports_target_name(t)
                                    /\ cache[cc_wrapper_path(t)] = ReadyFile
                                    /\ cache[ar_wrapper_path] = ReadyFile]
    /\ IF supports_target_name(t)
       THEN /\ zpc' = [zpc EXCEPT ![i] = "create_dir_all"]
            /\ zres' = [zres EXCEPT ![i] = NoShimResult]
       ELSE /\ zpc' = [zpc EXCEPT ![i] = "returned"]
            /\ zres' = [zres EXCEPT ![i] = [result |-> "Toolchain", env |-> EmptyEnv]]
    /\ UNCHANGED <<cache_dir, cache, zseen, cleaned>>
    /\ UNCHANGED <<run, aside>>

(* fs::create_dir_all(&self.cache_dir) *)
ZCreateDir(i) ==
    /\ zpc[i] = "create_dir_all"
    /\ cache_dir' = TRUE
    /\ zpc' = [zpc EXCEPT ![i] = "cc_open"]
    /\ UNCHANGED <<cache, ztarget, zres, zseen, zwrote, zhad, zcalls, cleaned>>
    /\ UNCHANGED <<run, aside>>

(* The file a task is working on *)
shim_path(i) ==
    IF zpc[i] \in {"cc_open", "cc_write", "cc_chmod"}
    THEN cc_wrapper_path(ztarget[i])
    ELSE ar_wrapper_path

(* The call of a task returns an error. *)
shim_error(i) ==
    /\ zpc' = [zpc EXCEPT ![i] = "returned"]
    /\ zres' = [zres EXCEPT ![i] = [result |-> "Toolchain", env |-> EmptyEnv]]

(* fs::write, first half: the file is created or truncated.  A new file    *)
(* is not executable, an existing one keeps its mode.  It fails when the   *)
(* directory is gone.                                                      *)
ZOpen(i) ==
    /\ zpc[i] \in {"cc_open", "ar_open"}
    /\ IF ~cache_dir
       THEN /\ shim_error(i)
            /\ UNCHANGED <<cache, zwrote>>
       ELSE /\ cache' = [cache EXCEPT ![shim_path(i)] =
                            [content |-> "partial",
                             exec |-> IF @.content = "absent" THEN FALSE ELSE @.exec]]
            /\ zwrote' = [zwrote EXCEPT ![i] =
                              @ \cup {[path |-> shim_path(i),
                                       existed |-> cache[shim_path(i)].content # "absent"]}]
            /\ zpc' = [zpc EXCEPT ![i] = IF zpc[i] = "cc_open" THEN "cc_write" ELSE "ar_write"]
            /\ UNCHANGED zres
    /\ UNCHANGED <<cache_dir, ztarget, zseen, zhad, zcalls, cleaned>>
    /\ UNCHANGED <<run, aside>>

(* fs::write, second half: the content is written and the file closed.     *)
(* A file unlinked in between stays absent.                                *)
ZWrite(i) ==
    /\ zpc[i] \in {"cc_write", "ar_write"}
    /\ cache' = [cache EXCEPT ![shim_path(i)] =
                    IF @.content = "absent" THEN @ ELSE [@ EXCEPT !.content = "full"]]
    /\ zpc' = [zpc EXCEPT ![i] = IF zpc[i] = "cc_write" THEN "cc_chmod" ELSE "ar_chmod"]
    /\ UNCHANGED <<cache_dir, ztarget, zres, zseen, zwrote, zhad, zcalls, cleaned>>
    /\ UNCHANGED <<run, aside>>

(* What the call returns once the wrappers are in place *)
shim_return(i) ==
    /\ zpc' = [zpc EXCEPT ![i] = "returned"]
    /\ zres' = [zres EXCEPT ![i] = [result |-> "Ok", env |-> zig_environment(ztarget[i])]]

(* fs::metadata and fs::set_permissions(0o755); after the archiver shim    *)
(* the call returns.                                                       *)
ZChmod(i) ==
    /\ zpc[i] \in {"cc_chmod", "ar_chmod"}
    /\ IF cache[shim_path(i)].content = "absent"
       THEN /\ shim_error(i)
            /\ UNCHANGED cache
       ELSE /\ cache' = [cache EXCEPT ![shim_path(i)].exec = TRUE]
            /\ IF zpc[i] = "cc_chmod"
               THEN /\ zpc' = [zpc EXCEPT ![i] = "ar_exists"]
                    /\ UNCHANGED zres
               ELSE shim_return(i)
    /\ UNCHANGED <<cache_dir, ztarget, zseen, zwrote, zhad, zcalls, cleaned>>
    /\ UNCHANGED <<run, aside>>

(* ar_wrapper_path.exists() *)
ar_exists(file) == file.content # "absent"

(* `if !ar_wrapper_path.exists()`: an existing archiver shim is reused. *)
ZArExists(i) ==
    /\ zpc[i] = "ar_exists"
    /\ IF ar_exists(cache[ar_wrapper_path])
       THEN shim_return(i)
       ELSE /\ zpc' = [zpc EXCEPT ![i] = "ar_open"]
            /\ UNCHANGED zres
    /\ UNCHANGED <<cache_dir, cache, ztarget, zseen, zwrote, zhad, zcalls, cleaned>>
    /\ UNCHANGED <<run, aside>>

(* A file-system call of create_wrappers fails with an I/O error. *)
ZIoError(i) ==
    /\ zpc[i] \in {"create_dir_all", "cc_open", "cc_write", "cc_chmod",
                   "ar_open", "ar_write", "ar_chmod"}
    /\ shim_error(i)
    /\ UNCHANGED <<cache_dir, cache, ztarget, zseen, zwrote, zhad, zcalls, cleaned>>
    /\ UNCHANGED <<run, aside>>

(* Builder::build starts the build driver with the returned environment:   *)
(* CC, AR and the linker variable point to the shims as they are now.      *)
ZDriver(i) ==
    /\ zpc[i] = "returned"
    /\ zres[i].result = "Ok"
    /\ zseen' = [zseen EXCEPT ![i] = [cc |-> cache[zres[i].env[<<"CC">>]],
                                      ar |-> cache[zres[i].env[<<"AR">>]]]]
    /\ zpc' = [zpc EXCEPT ![i] = "driver"]
    /\ UNCHANGED <<cache_dir, cache, ztarget, zres, zwrote, zhad, zcalls, cleaned>>
    /\ UNCHANGED <<run, aside>>

(* The build of the task is over (the driver exited, or the call failed). *)
ZDone(i) ==
    /\ \/ zpc[i] = "driver"
       \/ zpc[i] = "returned" /\ zres[i].result # "Ok"
    /\ zpc' = [zpc EXCEPT ![i] = "idle"]
    /\ ztarget' = [ztarget EXCEPT ![i] = <<>>]
    /\ zres' = [zres EXCEPT ![i] = NoShimResult]
    /\ zseen' = [zseen EXCEPT ![i] = NotSeen]
    /\ zwrote' = [zwrote EXCEPT ![i] = {}]
    /\ zhad' = [zhad EXCEPT ![i] = FALSE]
    /\ UNCHANGED <<cache_dir, cache, zcalls, cleaned>>
    /\ UNCHANGED <<run, aside>>

(* ZigToolchain::clean_cache: fs::remove_dir_all(&self.cache_dir) *)
ZCleanCache(i) ==
    /\ zpc[i] = "idle"
    /\ zcalls[i] < MaxShimCalls
    /\ zcalls' = [zcalls EXCEPT ![i] = @ + 1]
    /\ cache_dir' = FALSE
    /\ cache' = [p \in ShimPaths |-> AbsentFile]
    /\ cleaned' = TRUE
    /\ UNCHANGED <<zpc, ztarget, zres, zseen, zwrote, zhad>>
    /\ UNCHANGED <<run, aside>>

(* The wrapper cache on its own: a Builder with Zig installed, and tasks   *)
(* that call environment_for_target and clean_cache concurrently.          *)
InitWrappers ==
    /\ entry = "environment_for_target"
    /\ world = [host |-> AppleArm, zig |-> TRUE, discovered |-> Config_default,
                container_feature |-> FALSE]
    /\ self = Builder_new(world)
    /\ options = [target |-> <<>>, use_container |-> FALSE, use_zig |-> "None",
                  operation |-> "Build"]
    /\ targets = <<>>
    /\ mpc = "done"
    /\ call = NoCall
    /\ ret = "Pending"
    /\ successes = <<>>
    /\ failures = <<>>
    /\ idx = 1
    /\ tpc = <<>>
    /\ tres = <<>>
    /\ tsnap = <<>>
    /\ mutex = [successes |-> 0, failures |-> 0]
    /\ InitShims
    /\ InitAside

NextWrappers ==
    \/ \E i \in ShimTasks, t \in ShimTriples : ZCall(i, t)
    \/ \E i \in ShimTasks : ZCreateDir(i)
    \/ \E i \in ShimTasks : ZOpen(i)
    \/ \E i \in ShimTasks : ZWrite(i)
    \/ \E i \in ShimTasks : ZChmod(i)
    \/ \E i \in ShimTasks : ZArExists(i)
    \/ \E i \in ShimTasks : ZIoError(i)
    \/ \E i \in ShimTasks : ZDriver(i)
    \/ \E i \in ShimTasks : ZDone(i)
    \/ \E i \in ShimTasks : ZCleanCache(i)

SpecWrappers == InitWrappers /\ [][NextWrappers]_vars

-----------------------------------------------------------------------------
(* The wrapper shims *)

(* The call of task i has returned (and its driver may have started). *)
ShimCallOver(i) == zpc[i] \in {"returned", "driver"}

(* C16: shim generation is idempotent: a shim file is written only when it *)
(* is absent, so a call for a target whose compiler and archiver shims     *)
(* exist writes neither file, and it returns the same paths.               *)
C16_ShimsWrittenOnlyIfAbsent ==
    \A i \in ShimTasks :
       /\ \A wr \in zwrote[i] : ~wr.existed
       /\ (ShimCallOver(i) /\ zhad[i] /\ zres[i].result = "Ok")
            => zres[i].env = zig_environment(ztarget[i])

(* C17: while the cache is not cleared, no task starts the build driver    *)
(* with CC, the linker variable (the compiler shim) or AR pointing to a    *)
(* shim that is missing, partially written or not executable, under every  *)
(* interleaving of the tasks' file-system steps.                           *)
C17_DriverSeesCompleteShims ==
    ~cleaned
    => \A i \in ShimTasks :
          zpc[i] = "driver" => zseen[i].cc = ReadyFile /\ zseen[i].ar = ReadyFile

(* C18: for a supported target a successful environment_for_target returns *)
(* exactly CC |-> the target's compiler shim, AR |-> the archiver shim and *)
(* CARGO_TARGET_<T>_LINKER |-> the compiler shim, <T> the triple in upper  *)
(* case with '_' for '-'; for an unsupported target it returns a toolchain *)
(* error and writes no file.                                               *)
C18_WrapperEnvironment ==
    \A i \in ShimTasks :
       ShimCallOver(i)
       => LET t   == ztarget[i]
              env == zres[i].env
              var == <<"CARGO_TARGET">> \o [k \in 1..Len(t) |-> to_uppercase(t[k])]
                     \o <<"LINKER">>
          IN  IF t \in ZigSupported
              THEN /\ zres[i].result \in {"Ok", "Toolchain"}
                   /\ zres[i].result = "Ok"
                        => /\ DOMAIN env = {<<"CC">>, <<"AR">>, var}
                           /\ Cardinality(DOMAIN env) = 3
                           /\ env[<<"CC">>] = <<"zig-wrappers">> \o t \o <<"cc">>
                           /\ env[<<"AR">>] = <<"zig-wrappers", "zig", "ar">>
                           /\ env[var] = env[<<"CC">>]
              ELSE /\ zres[i].result = "Toolchain"
                   /\ env = EmptyEnv
                   /\ zwrote[i] = {}

(* C18 witness: a call for x86_64-pc-windows-gnu returned the three        *)
(* entries, the linker variable being CARGO_TARGET_X86_64_PC_WINDOWS_GNU_  *)
(* LINKER, and another call for x86_64-pc-windows-msvc returned an error.  *)
C18_Witness ==
    /\ zpc[1] = "returned" /\ ztarget[1] = WindowsGnu /\ zres[1].result = "Ok"
    /\ zres[1].env[<<"CARGO_TARGET", "X86_64", "PC", "WINDOWS", "GNU", "LINKER">>]
         = <<"zig-wrappers", "x86_64", "pc", "windows", "gnu", "cc">>
    /\ zpc[2] = "returned" /\ ztarget[2] = WindowsMsvc /\ zres[2].result = "Toolchain"
    /\ cache[cc_wrapper_path(WindowsGnu)] = ReadyFile

-----------------------------------------------------------------------------
(* Container runtime selection and the container build sequence *)

(* A call that created a container runtime has returned. *)
RuntimeCreated ==
    /\ mpc = "done"
    /\ \/ entry = "container_build"
       \/ entry = "build" /\ Has(call, "build_with_container") /\ world.container_feature

(* The runtime type handed to create_runtime in this call. *)
RequestedRuntime ==
    IF entry = "container_build" THEN options.runtime ELSE runtime_type_of(self.config)

(* Position of the first occurrence of ev in the call's trace, 0 if none. *)
FirstAt(r, ev) ==
    IF Has(r, ev) THEN CHOOSE i \in 1..Len(r.trace) :
                           r.trace[i] = ev /\ \A j \in 1..(i - 1) : r.trace[j] # ev
    ELSE 0

Probed(r, engine) ==
    Has(r, engine \o " --version") \/ Has(r, engine \o " --version:err")

NotAvailable(r) ==
    /\ r.result = "ContainerNotAvailable"
    /\ r.engine = "none"
    /\ r.trace[Len(r.trace)] = "create_runtime:err"

(* An explicitly requested engine is selected iff its own probe succeeds; *)
(* the other engine is never probed nor selected.                         *)
ExplicitRuntime(r, engine, other) ==
    /\ Probed(r, engine)
    /\ ~Probed(r, other)
    /\ Has(r, engine \o " --version") => r.engine = engine
    /\ Has(r, engine \o " --version:err") => NotAvailable(r)

(* C19: in Auto mode Docker is probed first and Podman only after a failed *)
(* Docker probe, the first engine whose probe succeeds is selected, and    *)
(* when both probes fail the call ends with the not-available error; an    *)
(* explicitly requested engine is selected exactly when its own probe      *)
(* succeeds, and the other engine is never substituted for it.             *)
C19_RuntimeSelection ==
    RuntimeCreated =>
        CASE RequestedRuntime = "Auto" ->
               /\ Probed(call, "docker")
               /\ Has(call, "docker --version") =>
                      call.engine = "docker" /\ ~Probed(call, "podman")
               /\ Has(call, "docker --version:err") =>
                      /\ Probed(call, "podman")
                      /\ FirstAt(call, "docker --version:err")
                             < FirstAt(call, "podman --version")
                                 + FirstAt(call, "podman --version:err")
                      /\ Has(call, "podman --version") => call.engine = "podman"
                      /\ Has(call, "podman --version:err") => NotAvailable(call)
          [] RequestedRuntime = "Docker" -> ExplicitRuntime(call, "docker", "podman")
          [] RequestedRuntime = "Podman" -> ExplicitRuntime(call, "podman", "docker")

(* Auto mode selected Podman after a failed Docker probe and the build ran. *)
C19_Witness ==
    /\ RuntimeCreated
    /\ RequestedRuntime = "Auto"
    /\ Has(call, "docker --version:err")
    /\ call.engine = "podman"
    /\ call.result = "Ok"

(* An explicitly requested Podman whose probe failed: not available, and *)
(* Docker was not tried.                                                 *)
C19_WitnessExplicit ==
    /\ RuntimeCreated
    /\ RequestedRuntime = "Podman"
    /\ NotAvailable(call)
    /\ ~Probed(call, "docker")

(* A call of ContainerBuilder::build on a created runtime has returned. *)
ContainerBuilt ==
    /\ RuntimeCreated
    /\ call.engine # "none"
    /\ entry = "build" => Has(call, "select_image")

(* The steps of ContainerBuilder::build that can fail. *)
ContainerStepErrors ==
    {"is_available:err", "select_image:err", "pull_image:err", "current_dir:err", "run:err"}

(* The container command was started, whatever its exit status. *)
ContainerRan(r) == Has(r, "run") \/ Has(r, "run:err")

(* Position of the last occurrence of ev in the call's trace, 0 if none. *)
LastAt(r, ev) ==
    IF Has(r, ev) THEN CHOOSE i \in 1..Len(r.trace) :
                           r.trace[i] = ev /\ \A j \in (i + 1)..Len(r.trace) : r.trace[j] # ev
    ELSE 0

(* C20: a container build checks availability, then selects the image,   *)
(* then pulls it, then runs the container; a failed step ends the call    *)
(* with a container error and nothing after it, the container is never    *)
(* run after a failed pull, and the call is Ok exactly when the container *)
(* process exited with success.                                           *)
C20_ContainerStepOrder ==
    ContainerBuilt =>
        /\ \A e \in ContainerStepErrors :
               Has(call, e) => /\ call.trace[Len(call.trace)] = e
                               /\ Count(call, e) = 1
                               /\ call.result = "Container"
        /\ Has(call, "pull_image:err") => ~ContainerRan(call)
        /\ ContainerRan(call) =>
               /\ Has(call, "pull_image")
               /\ LastAt(call, "pull_image") < FirstAt(call, "run") + FirstAt(call, "run:err")
        /\ (Has(call, "pull_image") \/ Has(call, "pull_image:err")) =>
               /\ Has(call, "is_available")
               /\ LastAt(call, "is_available")
                      < FirstAt(call, "pull_image") + FirstAt(call, "pull_image:err")
               /\ (entry = "container_build" /\ options.image = <<>>) =>
                      /\ Has(call, "select_image")
                      /\ LastAt(call, "is_available") < FirstAt(call, "select_image")
                      /\ FirstAt(call, "select_image")
                             < FirstAt(call, "pull_image") + FirstAt(call, "pull_image:err")
        /\ (Has(call, "select_image") /\ entry = "container_build") =>
               Has(call, "is_available")
        /\ call.result = "Ok" <=> Has(call, "run")

(* The image was selected and its pull failed: the call ended there with *)
(* a container error.                                                    *)
C20_Witness ==
    /\ ContainerBuilt
    /\ entry = "container_build"
    /\ Has(call, "select_image")
    /\ call.trace[Len(call.trace)] = "pull_image:err"
    /\ call.result = "Container"

-----------------------------------------------------------------------------
(* Strings.  Where a function works on the characters of a string (split,  *)
(* join, contains, starts_with) the string is the sequence of its pieces:  *)
(* each dash is a piece "-" of its own, and the text between dashes is cut *)
(* so that every pattern the code searches for is a whole piece wherever   *)
(* it occurs ("wasm32" is <<"wasm","32">>, "androideabi" is                *)
(* <<"android","eabi">>).  Str gives the string the pieces spell.          *)

RECURSIVE Str(_)
Str(s) == IF s = <<>> THEN "" ELSE s[1] \o Str(Tail(s))

(* str::split('-'): the segments between the dashes, an empty string having *)
(* the one segment "".                                                     *)
RECURSIVE split_from(_, _, _)
split_from(s, cur, acc) ==
    IF s = <<>> THEN Append(acc, cur)
    ELSE IF s[1] = "-" THEN split_from(Tail(s), "", Append(acc, cur))
         ELSE split_from(Tail(s), cur \o s[1], acc)

split(s) == split_from(s, "", <<>>)

(* [&str]::join("-") *)
RECURSIVE join(_)
join(parts) ==
    IF parts = <<>> THEN ""
    ELSE IF Len(parts) = 1 THEN parts[1]
         ELSE parts[1] \o "-" \o join(Tail(parts))

(* str::contains and str::starts_with for a pattern of pieces *)
contains(s, pat) ==
    \E i \in 1..(Len(s) - Len(pat) + 1) : SubSeq(s, i, i + Len(pat) - 1) = pat

starts_with(s, pat) ==
    Len(s) >= Len(pat) /\ SubSeq(s, 1, Len(pat)) = pat

-----------------------------------------------------------------------------
(* Target::classify_tier and Target::from_triple on the text of the triple *)

(* The tier1 array of classify_tier *)
tier1 ==
    { <<"x86_64", "-", "unknown", "-", "linux", "-", "gnu">>,
      <<"x86_64", "-", "unknown", "-", "linux", "-", "musl">>,
      <<"x86_64", "-", "pc", "-", "windows", "-", "gnu">>,
      <<"x86_64", "-", "apple", "-", "darwin">>,
      <<"aarch64", "-", "apple", "-", "darwin">>,
      <<"i686", "-", "pc", "-", "windows", "-", "gnu">>,
      <<"i686", "-", "unknown", "-", "linux", "-", "gnu">> }

classify_tier(s) ==
    IF s \in tier1 THEN "Native"
    ELSE IF \/ contains(s, <<"android">>)
            \/ contains(s, <<"ios">>)
            \/ starts_with(s, <<"wasm">>)
            \/ starts_with(s, <<"thumb">>)
            \/ starts_with(s, <<"riscv">>)
         THEN "Specialized"
         ELSE "Container"

NoParsed == [triple |-> "", arch |-> "", vendor |-> "", os |-> "", env |-> <<>>,
             tier |-> "none"]

(* Variant: only the fourth segment is kept as the environment. *)
Target_from_triple_one_env(s) ==
    LET parts == split(s) IN
    IF Len(parts) < 3
    THEN [ok |-> FALSE, err |-> "TargetNotFound", t |-> NoParsed]
    ELSE [ok |-> TRUE, err |-> "none",
          t |-> [triple |-> Str(s),
                 arch   |-> parts[1],
                 vendor |-> parts[2],
                 os     |-> parts[3],
                 env    |-> IF Len(parts) >= 4 THEN <<parts[4]>> ELSE <<>>,
                 tier   |-> classify_tier(s)]]

(* Target::from_triple, the fields being strings and env the joined rest *)
Target_from_triple(s) ==
    LET parts == split(s) IN
    IF Len(parts) < 3
    THEN [ok |-> FALSE, err |-> "TargetNotFound", t |-> NoParsed]
    ELSE [ok |-> TRUE, err |-> "none",
          t |-> [triple |-> Str(s),
                 arch   |-> parts[1],
                 vendor |-> parts[2],
                 os     |-> parts[3],
                 env    |-> IF Len(parts) >= 4
                            THEN <<join(SubSeq(parts, 4, Len(parts)))>>
                            ELSE <<>>,
                 tier   |-> classify_tier(s)]]

-----------------------------------------------------------------------------
(* Inputs of the library calls *)

MaxStrLen == 5

StrPieces == {"-", "a", "wasm", "ios"}

(* Triples of the rustc target list and strings the tests use *)
KnownStrings ==
    { <<"x86_64", "-", "unknown", "-", "linux", "-", "gnu">>,
      <<"x86_64", "-", "unknown", "-", "linux", "-", "musl">>,
      <<"i686", "-", "unknown", "-", "linux", "-", "gnu">>,
      <<"aarch64", "-", "unknown", "-", "linux", "-", "gnu">>,
      <<"aarch64", "-", "unknown", "-", "linux", "-", "musl">>,
      <<"armv7", "-", "unknown", "-", "linux", "-", "gnueabihf">>,
      <<"arm", "-", "unknown", "-", "linux", "-", "gnueabihf">>,
      <<"x86_64", "-", "pc", "-", "windows", "-", "gnu">>,
      <<"i686", "-", "pc", "-", "windows", "-", "gnu">>,
      <<"x86_64", "-", "pc", "-", "windows", "-", "msvc">>,
      <<"x86_64", "-", "apple", "-", "darwin">>,
      <<"aarch64", "-", "apple", "-", "darwin">>,
      <<"aarch64", "-", "apple", "-", "ios">>,
      <<"aarch64", "-", "apple", "-", "ios", "-", "sim">>,
      <<"aarch64", "-", "linux", "-", "android">>,
      <<"armv7", "-", "linux", "-", "android", "eabi">>,
      <<"x86_64", "-", "linux", "-", "android">>,
      <<"i686", "-", "linux", "-", "android">>,
      <<"wasm", "32", "-", "unknown", "-", "unknown">>,
      <<"wasm", "32", "-", "wasi">>,
      <<"thumb", "v7em", "-", "none", "-", "eabihf">>,
      <<"riscv", "64gc", "-", "unknown", "-", "linux", "-", "gnu">>,
      <<"x86_64", "-", "unknown", "-", "freebsd">>,
      <<"unknown", "-", "target">>,
      <<"invalid">> }

LibStrings == SeqsUpTo(StrPieces, MaxStrLen) \cup KnownStrings

(* Host triples as `rustc -vV` prints them *)
LibHosts ==
    { <<"x86_64", "-", "unknown", "-", "linux", "-", "gnu">>,
      <<"aarch64", "-", "apple", "-", "darwin">> }

(* What `which` finds on the search path *)
LibPaths == SUBSET {"ndk-build", "aarch64-linux-gnu-gcc"}

LibArgs == [str : LibStrings, host : LibHosts, path : LibPaths]

InitLibrary ==
    /\ entry = "library"
    /\ world = [host |-> LinuxGnu, zig |-> FALSE, discovered |-> Config_default,
                container_feature |-> FALSE]
    /\ self = Builder_new(world)
    /\ options = [target |-> <<>>, use_container |-> FALSE, use_zig |-> "None",
                  operation |-> "Build"]
    /\ targets = <<>>
    /\ mpc = "done"
    /\ call = NoCall
    /\ ret = "Pending"
    /\ successes = <<>>
    /\ failures = <<>>
    /\ idx = 1
    /\ tpc = [i \in Indices |-> "idle"]
    /\ tres = [i \in Indices |-> NoRes]
    /\ tsnap = [i \in Indices |-> <<>>]
    /\ mutex = [successes |-> 0, failures |-> 0]
    /\ InitShims
    /\ lop = "none"
    /\ larg \in LibArgs
    /\ lout = <<>>
    /\ hung = {}
    /\ InitRegistry

(* No library function has been applied to the input yet. *)
Fresh == lop = "none"

(* A library function is applied to the input and its result kept. *)
Apply(op, out) ==
    /\ lop' = op
    /\ lout' = out
    /\ UNCHANGED larg
    /\ UNCHANGED <<run, shim, hung, registry>>

(* ImageSelector::new().select_for_target(target) *)
SelectImage ==
    /\ Fresh
    /\ Apply("select_for_target", select_for_target(split(larg.str)))

(* Target::from_triple(triple) *)
Parse ==
    /\ Fresh
    /\ Apply("from_triple", Target_from_triple(larg.str))

(* TargetRequirements::are_satisfied: the linker and every tool are on the *)
(* search path.                                                            *)
are_satisfied(reqs, path) ==
    /\ \A i \in 1..Len(reqs.linker) : reqs.linker[i] \in path
    /\ \A i \in 1..Len(reqs.tools) : reqs.tools[i] \in path

NoRequirements == [linker |-> <<>>, tools |-> <<>>, env_vars |-> <<>>]

(* Target::from_triple(triple)?.get_requirements() and are_satisfied() on  *)
(* the result                                                              *)
Requirements ==
    /\ Fresh
    /\ LET p == from_triple(split(larg.str))
           reqs == IF p.ok THEN get_requirements(p.t) ELSE NoRequirements
       IN  Apply("get_requirements",
                 [ok |-> p.ok, reqs |-> reqs,
                  satisfied |-> p.ok /\ are_satisfied(reqs, larg.path)])

(* Builder::suggest_linker_installation: the tip chosen for the pair of   *)
(* the host's and the target's os fields.                                  *)
suggest_linker_installation(host, target) ==
    CASE host.os = "macos" /\ target.os = "linux"   -> "macos to linux: zig"
      [] host.os = "macos" /\ target.os = "windows" -> "macos to windows: brew mingw-w64"
      [] host.os = "linux" /\ target.os = "windows" -> "linux to windows: apt mingw-w64"
      [] host.os = "linux" /\ target.os = "macos"   -> "linux to macos: osxcross"
      [] host.os = "windows" /\ target.os = "linux" -> "windows to linux: WSL or containers"
      [] OTHER -> "generic"

(* Builder::build, the installation instructions printed when the linker   *)
(* is missing: the same pairs without the one for a Windows host.          *)
installation_instructions(host, target) ==
    CASE host.os = "macos" /\ target.os = "linux"   -> "macos to linux: brew"
      [] host.os = "macos" /\ target.os = "windows" -> "macos to windows: brew mingw-w64"
      [] host.os = "linux" /\ target.os = "windows" -> "linux to windows: apt mingw-w64"
      [] host.os = "linux" /\ target.os = "macos"   -> "linux to macos: osxcross"
      [] OTHER -> "generic"

(* The hints for a target parsed from its triple on a host parsed from the *)
(* host line of `rustc -vV`                                                *)
SuggestLinker ==
    /\ Fresh
    /\ LET h == Target_from_triple(larg.host)
           t == Target_from_triple(larg.str)
       IN  Apply("suggest_linker_installation",
                 [ok |-> h.ok /\ t.ok,
                  hint |-> IF h.ok /\ t.ok
                           THEN suggest_linker_installation(h.t, t.t) ELSE "none",
                  instructions |-> IF h.ok /\ t.ok
                                   THEN installation_instructions(h.t, t.t) ELSE "none"])

NextLibrary ==
    \/ SelectImage
    \/ Parse
    \/ Requirements
    \/ SuggestLinker

SpecLibrary == InitLibrary /\ [][NextLibrary]_vars

-----------------------------------------------------------------------------
(* Image lookup *)

Range(q) == {q[i] : i \in 1..Len(q)}

SelectedImage == lop = "select_for_target"

(* C21: image lookup succeeds exactly for the triples supported_targets()  *)
(* lists, and then the image's target is the input; every other input gets *)
(* a container error: the macOS one for the apple-darwin triples, the      *)
(* WebAssembly one for wasm32-unknown-unknown, and for any other triple    *)
(* one that names the target and suggests a custom image.                  *)
C21_ImageLookup ==
    SelectedImage =>
        LET t == split(larg.str) IN
        /\ lout.ok <=> t \in Range(supported_targets)
        /\ lout.ok => lout.target = t /\ join(lout.target) = Str(larg.str)
        /\ ~lout.ok =>
             /\ lout.err = "Container"
             /\ CASE Str(larg.str) \in {"x86_64-apple-darwin", "aarch64-apple-darwin"}
                       -> lout.msg.text = "No container image available for macOS target"
                  [] Str(larg.str) = "wasm32-unknown-unknown"
                       -> lout.msg.text = "WebAssembly doesn't require containers"
                  [] OTHER
                       -> /\ lout.msg.text = "No container image mapping for target"
                          /\ lout.msg.names = t
                          /\ lout.msg.remedy = "You can specify a custom image in xcargo.toml"

(* The lookup of wasm32-unknown-unknown was refused as unnecessary. *)
C21_Witness ==
    /\ SelectedImage
    /\ Str(larg.str) = "wasm32-unknown-unknown"
    /\ ~lout.ok
    /\ lout.msg.remedy = "use native build"

-----------------------------------------------------------------------------
(* build_all_parallel with a build that may never return.  The closure of  *)
(* a task is cut where it starts the build and where the build returns;    *)
(* the build of a task in `hung` never returns.                            *)

(* A target that builds natively and one that does not parse *)
ParallelTriples == {LinuxGnu, Malformed}

InitParallel ==
    /\ entry = "build_all_parallel"
    /\ world = [host |-> LinuxGnu, zig |-> FALSE, discovered |-> Config_default,
                container_feature |-> TRUE]
    /\ self = Builder_new(world)
    /\ options = [target |-> <<>>, use_container |-> FALSE, use_zig |-> "None",
                  operation |-> "Build"]
    /\ targets \in SeqsUpTo(ParallelTriples, MaxTargets)
    /\ mpc = "spawn"
    /\ call = NoCall
    /\ ret = "Pending"
    /\ successes = <<>>
    /\ failures = <<>>
    /\ idx = 1
    /\ tpc = [i \in Indices |-> "idle"]
    /\ tres = [i \in Indices |-> NoRes]
    /\ tsnap = [i \in Indices |-> <<>>]
    /\ mutex = [successes |-> 0, failures |-> 0]
    /\ InitShims
    /\ lop = "none"
    /\ larg = <<>>
    /\ lout = <<>>
    /\ hung \in {{}} \cup {{i} : i \in Indices}
    /\ InitRegistry

(* The blocking thread of a task starts the closure: Builder::new() and    *)
(* builder.build(&target_options) are under way.                           *)
TaskStart(i) ==
    /\ tpc[i] = "ready"
    /\ tpc' = [tpc EXCEPT ![i] = "running"]
    /\ UNCHANGED <<entry, self, options, targets, world, call, ret,
                   successes, failures, mpc, idx, tres, tsnap, mutex>>
    /\ UNCHANGED <<shim, aside>>

(* The build of a task returns, unless it is one that never does. *)
TaskFinish(i) ==
    /\ tpc[i] = "running"
    /\ i \notin hung
    /\ \E r \in task_outcomes(target_options(options, targets[i]), world) :
          tres' = [tres EXCEPT ![i] = r]
    /\ tpc' = [tpc EXCEPT ![i] = "built"]
    /\ UNCHANGED <<entry, self, options, targets, world, call, ret,
                   successes, failures, mpc, idx, tsnap, mutex>>
    /\ UNCHANGED <<shim, aside>>

NextParallel ==
    \/ Spawn
    \/ SpawnDone
    \/ \E i \in Indices : TaskStart(i)
    \/ \E i \in Indices : TaskFinish(i)
    \/ \E i \in Indices : TaskLock(i)
    \/ \E i \in Indices : TaskPush(i)
    \/ Await
    \/ ParallelSummary

(* The runtime's thread runs the spawn loop, and every task has a thread   *)
(* of the blocking pool to itself, so each step that stays possible is     *)
(* taken.                                                                  *)
FairParallel ==
    /\ WF_vars(Spawn)
    /\ WF_vars(SpawnDone)
    /\ \A i \in 1..MaxTargets :
          /\ WF_vars(i \in Indices /\ TaskStart(i))
          /\ WF_vars(i \in Indices /\ TaskFinish(i))
          /\ WF_vars(i \in Indices /\ TaskLock(i))
          /\ WF_vars(i \in Indices /\ TaskPush(i))

SpecParallel == InitParallel /\ [][NextParallel]_vars /\ FairParallel

(* Task i has pushed its target on one of the two lists and ended. *)
Recorded(i) ==
    /\ i \in Indices
    /\ tpc[i] = "done"
    /\ \E k \in 1..Len(successes \o failures) : (successes \o failures)[k] = targets[i]

(* A task holding a result lock is not building. *)
LockHeldOnlyToPush ==
    \A i \in Indices :
        (mutex.successes = i \/ mutex.failures = i) => tpc[i] = "locked"

(* A task's start and the return of its build wait for no other task. *)
TasksIndependent ==
    \A i \in Indices :
        /\ tpc[i] = "ready" => ENABLED TaskStart(i)
        /\ (tpc[i] = "running" /\ i \notin hung) => ENABLED TaskFinish(i)

(* C22: when the build of one target never terminates, every other target *)
(* of a parallel run is still started, built and recorded; no task waits   *)
(* for the build of another, and no result lock is held by a task that is  *)
(* building.                                                               *)
C22_NoStall ==
    /\ [](LockHeldOnlyToPush /\ TasksIndependent)
    /\ \A i \in 1..MaxTargets :
          (i \in Indices /\ i \notin hung) ~> Recorded(i)

(* The first task's build hangs and the second task has recorded its result. *)
C22_Witness ==
    /\ Len(targets) = 2
    /\ hung = {1}
    /\ tpc[1] = "running"
    /\ Recorded(2)

-----------------------------------------------------------------------------
(* Parsing and classification of triples *)

Parsed == lop = "from_triple"

(* The number of dash-separated segments of a string *)
NumSegments(s) == Cardinality({i \in 1..Len(s) : s[i] = "-"}) + 1

(* The text before the first dash of a string of pieces *)
RECURSIVE FirstSegment(_)
FirstSegment(s) ==
    IF s = <<>> \/ s[1] = "-" THEN "" ELSE s[1] \o FirstSegment(Tail(s))

(* What follows the first dash of a string of pieces *)
RECURSIVE AfterDash(_)
AfterDash(s) ==
    IF s = <<>> THEN <<>> ELSE IF s[1] = "-" THEN Tail(s) ELSE AfterDash(Tail(s))

(* The fields of a parsed target, joined with dashes again *)
Rejoined(t) == join(<<t.arch, t.vendor, t.os>> \o t.env)

(* C23: from_triple fails, with a target-resolution error, exactly on the  *)
(* strings of fewer than three dash-separated segments; otherwise triple   *)
(* is the input, arch, vendor and os are its first three segments, env is  *)
(* the rest joined by dashes (absent when there are exactly three), and    *)
(* the fields joined by dashes spell the input.                            *)
C23_ParseRoundTrip ==
    Parsed =>
        LET s == larg.str
            s2 == AfterDash(s)
            s3 == AfterDash(s2)
            s4 == AfterDash(s3)
        IN  /\ ~lout.ok <=> NumSegments(s) < 3
            /\ ~lout.ok => lout.err = "TargetNotFound"
            /\ lout.ok =>
                 /\ lout.t.triple = Str(s)
                 /\ lout.t.arch = FirstSegment(s)
                 /\ lout.t.vendor = FirstSegment(s2)
                 /\ lout.t.os = FirstSegment(s3)
                 /\ lout.t.env = IF NumSegments(s) = 3 THEN <<>> ELSE <<Str(s4)>>
                 /\ Rejoined(lout.t) = Str(s)

(* A triple whose environment has two segments was parsed. *)
C23_Witness ==
    /\ Parsed
    /\ lout.ok
    /\ NumSegments(larg.str) = 5
    /\ lout.t.env # <<>>
    /\ Rejoined(lout.t) = Str(larg.str)

(* The markers of the specialized tier *)
TierMarkers == {<<"wasm">>, <<"android">>, <<"ios">>, <<"thumb">>, <<"riscv">>}

(* C24: a triple of the Native allow-list is Native, any other triple that *)
(* contains a WASM, mobile or embedded marker is Specialized, every other  *)
(* triple is Container, and from_triple stores that tier.                  *)
C24_TierClassification ==
    (Parsed /\ lout.ok) =>
        lout.t.tier = IF larg.str \in tier1 THEN "Native"
                      ELSE IF \E m \in TierMarkers : contains(larg.str, m)
                           THEN "Specialized"
                           ELSE "Container"

-----------------------------------------------------------------------------
(* Requirements and linker diagnostics *)

Required == lop = "get_requirements" /\ lout.ok

(* The match table of get_requirements, in the order of its arms; "*" is a *)
(* wildcard.                                                               *)
RequirementTable ==
    << [os |-> "linux", arch |-> "aarch64", env |-> "gnu",
        linker |-> <<"aarch64-linux-gnu-gcc">>, tools |-> <<"aarch64-linux-gnu-gcc">>,
        env_vars |-> <<>>],
       [os |-> "linux", arch |-> "aarch64", env |-> "musl",
        linker |-> <<"aarch64-linux-musl-gcc">>, tools |-> <<"aarch64-linux-musl-gcc">>,
        env_vars |-> <<>>],
       [os |-> "linux", arch |-> "armv7", env |-> "*",
        linker |-> <<"arm-linux-gnueabihf-gcc">>, tools |-> <<"arm-linux-gnueabihf-gcc">>,
        env_vars |-> <<>>],
       [os |-> "linux", arch |-> "arm", env |-> "*",
        linker |-> <<"arm-linux-gnueabi-gcc">>, tools |-> <<"arm-linux-gnueabi-gcc">>,
        env_vars |-> <<>>],
       [os |-> "windows", arch |-> "x86_64", env |-> "gnu",
        linker |-> <<"x86_64-w64-mingw32-gcc">>, tools |-> <<"x86_64-w64-mingw32-gcc">>,
        env_vars |-> <<>>],
       [os |-> "windows", arch |-> "i686", env |-> "gnu",
        linker |-> <<"i686-w64-mingw32-gcc">>, tools |-> <<"i686-w64-mingw32-gcc">>,
        env_vars |-> <<>>],
       [os |-> "windows", arch |-> "*", env |-> "msvc",
        linker |-> <<>>, tools |-> <<"cl.exe">>, env_vars |-> <<>>],
       [os |-> "android", arch |-> "*", env |-> "*",
        linker |-> <<>>, tools |-> <<"ndk-build">>, env_vars |-> <<"ANDROID_NDK_HOME">>],
       [os |-> "ios", arch |-> "*", env |-> "*",
        linker |-> <<>>, tools |-> <<"xcrun">>, env_vars |-> <<>>],
       [os |-> "darwin", arch |-> "*", env |-> "ios",
        linker |-> <<>>, tools |-> <<"xcrun">>, env_vars |-> <<>>] >>

(* Entry e of the table matches the (os, arch, env) of a parsed target. *)
Matches(e, t) ==
    /\ e.os = t.os
    /\ e.arch \in {"*", t.arch}
    /\ e.env = "*" \/ t.env = <<e.env>>

(* C25: the requirements of a target are those of the first entry of the  *)
(* match table that fits its (os, arch, env), and they are empty (no       *)
(* linker, no tools, no variables) when no entry fits, as for              *)
(* x86_64-unknown-linux-gnu; the lookup never fails.                       *)
C25_RequirementLookup ==
    lop = "get_requirements" =>
        LET p == Target_from_triple(larg.str)
            hits == {k \in 1..Len(RequirementTable) : Matches(RequirementTable[k], p.t)}
        IN  /\ lout.ok <=> p.ok
            /\ lout.ok =>
                 /\ hits = {} => lout.reqs = NoRequirements
                 /\ hits # {} =>
                      LET e == RequirementTable[CHOOSE k \in hits : \A j \in hits : k <= j]
                      IN  /\ lout.reqs.linker = e.linker
                          /\ lout.reqs.tools = e.tools
                          /\ lout.reqs.env_vars = e.env_vars
                 /\ Str(larg.str) = "aarch64-unknown-linux-gnu" =>
                      lout.reqs.linker = <<"aarch64-linux-gnu-gcc">>
                 /\ Str(larg.str) = "x86_64-unknown-linux-gnu" =>
                      lout.reqs = NoRequirements

(* The requirements of x86_64-unknown-linux-gnu were looked up and are empty. *)
C25_Witness ==
    /\ Required
    /\ Str(larg.str) = "x86_64-unknown-linux-gnu"
    /\ lout.reqs = NoRequirements

(* The operating-system family the spec's host and target pairs speak of *)
OsFamily(os) == IF os = "darwin" THEN "macos" ELSE os

(* The pairs of real triples the claim names *)
DiagnosedPairs ==
    { <<"aarch64-apple-darwin", "x86_64-unknown-linux-gnu">>,
      <<"aarch64-apple-darwin", "x86_64-pc-windows-gnu">>,
      <<"x86_64-unknown-linux-gnu", "x86_64-pc-windows-gnu">>,
      <<"x86_64-unknown-linux-gnu", "x86_64-apple-darwin">> }

(* C26: for a host and a target parsed from their real triples, the hint   *)
(* for a missing linker is the one of their host-OS/target-OS pair, not    *)
(* the generic fallback.                                                   *)
C26_LinkerHintByOsPair ==
    (lop = "suggest_linker_installation"
        /\ <<Str(larg.host), Str(larg.str)>> \in DiagnosedPairs) =>
        LET h == [os |-> OsFamily(Target_from_triple(larg.host).t.os)]
            t == [os |-> OsFamily(Target_from_triple(larg.str).t.os)]
        IN  /\ lout.hint # "generic"
            /\ lout.hint = suggest_linker_installation(h, t)
            /\ lout.instructions # "generic"
            /\ lout.instructions = installation_instructions(h, t)

(* The Android triples of the rustc target list *)
AndroidTriples ==
    {"aarch64-linux-android", "armv7-linux-androideabi",
     "x86_64-linux-android", "i686-linux-android"}

(* C27: every Android triple requires the ndk-build tool and the           *)
(* ANDROID_NDK_HOME variable, so it is unsatisfied whenever ndk-build is   *)
(* not on the search path.                                                 *)
C27_AndroidNeedsNdk ==
    (lop = "get_requirements" /\ Str(larg.str) \in AndroidTriples) =>
        /\ lout.ok
        /\ \E i \in 1..Len(lout.reqs.tools) : lout.reqs.tools[i] = "ndk-build"
        /\ \E i \in 1..Len(lout.reqs.env_vars) : lout.reqs.env_vars[i] = "ANDROID_NDK_HOME"
        /\ "ndk-build" \notin larg.path => ~lout.satisfied

-----------------------------------------------------------------------------
(* plugin/registry.rs: PluginRegistry.  `plugins` holds the keys of the    *)
(* map, `execution_order` the Vec of names.  A plugin's on_init,           *)
(* on_shutdown and hook each return Ok or an error, as the plugin decides. *)

MaxRegistryCalls == 4

MaxOrderLen == 2

PluginNames == {"a", "b"}

(* The orders a caller hands to set_execution_order *)
Orders == SeqsUpTo(PluginNames, MaxOrderLen)

(* Vec::retain(|n| n != name) *)
retain(order, name) == SelectSeq(order, LAMBDA n : n # name)

(* PluginRegistry::register *)
register(P, O, name) ==
    IF name \in P
    THEN {[plugins |-> P, order |-> O, result |-> "Config"]}
    ELSE {[plugins |-> P, order |-> O, result |-> "Plugin"],
          [plugins |-> P \cup {name}, order |-> Append(O, name), result |-> "Ok"]}

(* PluginRegistry::unregister: the plugin is removed from the map, then    *)
(* its on_shutdown is called, then its name is removed from the order.     *)
unregister(P, O, name) ==
    IF name \in P
    THEN {[plugins |-> P \ {name}, order |-> O, result |-> "Plugin"],
          [plugins |-> P \ {name}, order |-> retain(O, name), result |-> "Ok"]}
    ELSE {[plugins |-> P, order |-> O, result |-> "Ok"]}

(* PluginRegistry::shutdown: unregister for each name of a clone of the    *)
(* order, up to the first that fails.                                      *)
RECURSIVE shutdown_over(_, _, _)
shutdown_over(names, P, O) ==
    IF names = <<>>
    THEN {[plugins |-> P, order |-> O, result |-> "Ok"]}
    ELSE UNION { IF u.result # "Ok" THEN {u}
                 ELSE shutdown_over(Tail(names), u.plugins, u.order)
               : u \in unregister(P, O, names[1]) }

shutdown(P, O) == shutdown_over(O, P, O)

(* set_execution_order accepts an order whose names are all registered. *)
order_accepted(P, order) == \A i \in 1..Len(order) : order[i] \in P

(* PluginRegistry::set_execution_order *)
set_execution_order(P, O, order) ==
    IF order_accepted(P, order)
    THEN [plugins |-> P, order |-> order, result |-> "Ok"]
    ELSE [plugins |-> P, order |-> O, result |-> "Config"]

(* The loop of execute_hook over the remaining names: a name without a     *)
(* plugin in the map is passed over, a failed hook ends the loop.          *)
RECURSIVE hook_over(_, _, _)
hook_over(names, P, invoked) ==
    IF names = <<>>
    THEN {[result |-> "Ok", invoked |-> invoked, failed |-> <<>>]}
    ELSE IF names[1] \in P
         THEN {[result |-> "Plugin", invoked |-> Append(invoked, names[1]),
                failed |-> <<names[1]>>]}
              \cup hook_over(Tail(names), P, Append(invoked, names[1]))
         ELSE hook_over(Tail(names), P, invoked)

(* PluginRegistry::execute_hook *)
execute_hook(P, O) == hook_over(O, P, <<>>)

InitPlugins ==
    /\ entry = "registry"
    /\ world = [host |-> LinuxGnu, zig |-> FALSE, discovered |-> Config_default,
                container_feature |-> FALSE]
    /\ self = Builder_new(world)
    /\ options = [target |-> <<>>, use_container |-> FALSE, use_zig |-> "None",
                  operation |-> "Build"]
    /\ targets = <<>>
    /\ mpc = "done"
    /\ call = NoCall
    /\ ret = "Pending"
    /\ successes = <<>>
    /\ failures = <<>>
    /\ idx = 1
    /\ tpc = [i \in Indices |-> "idle"]
    /\ tres = [i \in Indices |-> NoRes]
    /\ tsnap = [i \in Indices |-> <<>>]
    /\ mutex = [successes |-> 0, failures |-> 0]
    /\ InitShims
    /\ lop = "none"
    /\ larg = <<>>
    /\ lout = <<>>
    /\ hung = {}
    /\ InitRegistry

(* The caller may make another call on the registry. *)
CanCall == entry = "registry" /\ pcalls < MaxRegistryCalls

(* A call that changes the registry has returned. *)
Changed(op, arg, u) ==
    /\ plugins' = u.plugins
    /\ execution_order' = u.order
    /\ plast' = [op |-> op, arg |-> arg, result |-> u.result,
                 invoked |-> <<>>, failed |-> <<>>]
    /\ pcalls' = pcalls + 1
    /\ UNCHANGED <<run, shim, lib, hung>>

Register(name) ==
    /\ CanCall
    /\ \E u \in register(plugins, execution_order, name) :
          Changed("register", <<name>>, u)

Unregister(name) ==
    /\ CanCall
    /\ \E u \in unregister(plugins, execution_order, name) :
          Changed("unregister", <<name>>, u)

SetExecutionOrder(order) ==
    /\ CanCall
    /\ Changed("set_execution_order", order,
               set_execution_order(plugins, execution_order, order))

Shutdown ==
    /\ CanCall
    /\ \E u \in shutdown(plugins, execution_order) :
          Changed("shutdown", <<>>, u)

ExecuteHook ==
    /\ CanCall
    /\ \E h \in execute_hook(plugins, execution_order) :
          plast' = [op |-> "execute_hook", arg |-> <<>>, result |-> h.result,
                    invoked |-> h.invoked, failed |-> h.failed]
    /\ pcalls' = pcalls + 1
    /\ UNCHANGED <<plugins, execution_order>>
    /\ UNCHANGED <<run, shim, lib, hung>>

NextPlugins ==
    \/ \E name \in PluginNames : Register(name)
    \/ \E name \in PluginNames : Unregister(name)
    \/ \E order \in Orders : SetExecutionOrder(order)
    \/ Shutdown
    \/ ExecuteHook

SpecPlugins == InitPlugins /\ [][NextPlugins]_vars

(* The names of the order that have a plugin in the map, in order *)
Registered(order, P) == SelectSeq(order, LAMBDA n : n \in P)

(* How many times a name occurs in a sequence of names *)
Times(q, name) == Cardinality({i \in 1..Len(q) : q[i] = name})

(* C28: execute_hook invokes the hook on the plugins of the execution      *)
(* order one after the other in that order and stops at the first whose    *)
(* hook fails, returning its error and invoking no later plugin; when no   *)
(* hook fails, every plugin of the order has been invoked exactly once.    *)
C28_HookOrderAndStop ==
    plast.op = "execute_hook" =>
        LET due == Registered(execution_order, plugins) IN
        /\ Len(plast.invoked) <= Len(due)
        /\ plast.invoked = SubSeq(due, 1, Len(plast.invoked))
        /\ plast.result # "Ok" =>
             /\ plast.invoked # <<>>
             /\ plast.failed = <<plast.invoked[Len(plast.invoked)]>>
        /\ plast.result = "Ok" =>
             /\ plast.failed = <<>>
             /\ \A i \in 1..Len(execution_order) :
                    execution_order[i] \in plugins
                        => Times(plast.invoked, execution_order[i]) = 1

(* The execution order names exactly the plugins of the map, each once. *)
OrderMatchesPlugins ==
    /\ {execution_order[i] : i \in 1..Len(execution_order)} = plugins
    /\ Len(execution_order) = Cardinality(plugins)

(* C29: after every call on a registry, failed calls included, the         *)
(* execution order holds exactly the names of the registered plugins, each *)
(* once (list().len() = count(), every listed name is contained), and      *)
(* after a successful shutdown the registry is empty.                      *)
C29_OrderMatchesRegistry ==
    entry = "registry" =>
        /\ OrderMatchesPlugins
        /\ (plast.op = "shutdown" /\ plast.result = "Ok") =>
               plugins = {} /\ execution_order = <<>>

-----------------------------------------------------------------------------
(* The default container policy and the wrapper *)

(* A build in automatic wrapper mode under the default container policy,  *)
(* container support compiled in, has returned.                            *)
AutoUnderDefaultPolicy ==
    /\ Returned
    /\ world.container_feature
    /\ self.config.container.use_when = "target.os != host.os"
    /\ ~options.use_container
    /\ options.use_zig = "None"

(* C30: with container support compiled in and the default container      *)
(* policy, a build in automatic wrapper mode never selects the Wrapper     *)
(* strategy: a target whose OS differs from the host's is built in a       *)
(* container, chosen before the wrapper is evaluated, and for a target of  *)
(* the host's OS the wrapper is skipped; the strategy is Container or      *)
(* Native.                                                                 *)
C30_DefaultPolicyShadowsWrapper ==
    AutoUnderDefaultPolicy =>
        /\ call.strategy # "Zig"
        /\ call.strategy \in {"Container", "Native", "none"}
        /\ call.strategy = "none" => call.result \notin {"Ok", "Pending"}
        /\ Has(call, "should_use_container_for_target") =>
             LET t == from_triple(call.triple).t
                 h == from_triple(world.host).t
             IN  IF t.os # h.os
                 THEN /\ call.strategy = "Container"
                      /\ ~Has(call, "try_zig_cross_compilation")
                 ELSE /\ call.strategy # "Container"
                      /\ call.strategy = "Native" => call.env = cargo_env(
                             FALSE, EmptyEnv, call.linker,
                             get_target_config(self.config, call.triple), call.triple)

(* A Windows target on a Linux host with zig installed was built in a     *)
(* container.                                                              *)
C30_Witness ==
    /\ AutoUnderDefaultPolicy
    /\ world.zig
    /\ call.triple = WindowsGnu
    /\ world.host = LinuxGnu
    /\ call.strategy = "Container"
    /\ call.result = "Ok"

====
